---------------------------- MODULE Spec2Model ----------------------------
(***************************************************************************)
(* Model of the news aggregator's service layer (NewsService): feed        *)
(* discovery, the line-oriented RSS parser, the content hash, the          *)
(* ingestion pipeline with its store dedup check, and the user-facing      *)
(* store operations, run by asynchronous tasks that interleave at every    *)
(* await.                                                                  *)
(*                                                                         *)
(* JavaScript strings are TLA+ strings; the string helpers below are       *)
(* built from Len, SubSeq and \o only.                                     *)
(***************************************************************************)
EXTENDS Integers, Sequences, FiniteSets, TLC

VARIABLES
    auth,       \* the user blink.auth.me() resolves to, or NoUser
    sources,    \* the records of blink.db.newsSources
    articles,   \* the records of blink.db.articles
    feed,       \* feed[u]: the document the feed URL u serves now
    task,       \* task[t]: the call task t runs, its locals and where it is
    overlapped, \* history: two refreshSourceArticles calls were in flight at once
    calls,      \* history: the number of calls made of the service
    unit,       \* a pure function taken alone: its arguments and, once applied, its value
    ui          \* the state of the App component and the position of its handlers

vars == <<auth, sources, articles, feed, task, overlapped, calls, unit, ui>>

(***************************************************************************)
(* Strings                                                                 *)
(***************************************************************************)

\* The character of s at (1-based) position i.
CharAt(s, i) == SubSeq(s, i, i)

\* s.substring(from) with a 1-based from.
Drop(s, n) == SubSeq(s, n + 1, Len(s))

\* s.substring(0, n)
Prefix(s, n) == IF Len(s) <= n THEN s ELSE SubSeq(s, 1, n)

\* String.prototype.startsWith
StartsWith(s, p) == Len(p) <= Len(s) /\ SubSeq(s, 1, Len(p)) = p

\* String.prototype.includes
Includes(s, sub) ==
    \E i \in 1..(Len(s) - Len(sub) + 1) : SubSeq(s, i, i + Len(sub) - 1) = sub

\* s.indexOf(c) + 1 for a character c: the 1-based index of its first
\* occurrence, 0 if none.
IndexOfChar(s, c) ==
    LET at == {i \in 1..Len(s) : CharAt(s, i) = c}
    IN  IF at = {} THEN 0 ELSE CHOOSE i \in at : \A j \in at : i <= j

\* The printable ASCII characters in code order, in three runs: codes 32..33,
\* 35..95 and 97..126 (the double quote, 34, and the backtick, 96, cannot be
\* written in a string here and occur in none of the modelled inputs).
AsciiA == " !"
AsciiB == "#$%&'()*+,-./0123456789:;<=>?@ABCDEFGHIJKLMNOPQRSTUVWXYZ[\\]^_"
AsciiC == "abcdefghijklmnopqrstuvwxyz{|}~"

UpperChars == "ABCDEFGHIJKLMNOPQRSTUVWXYZ"
LowerChars == "abcdefghijklmnopqrstuvwxyz"

\* String.prototype.charCodeAt for one character (tab 9, LF 10, CR 13,
\* printable ASCII).
CharCode(c) ==
    CASE c = "\t" -> 9
      [] c = "\n" -> 10
      [] c = "\r" -> 13
      [] IndexOfChar(AsciiA, c) # 0 -> 31 + IndexOfChar(AsciiA, c)
      [] IndexOfChar(AsciiB, c) # 0 -> 34 + IndexOfChar(AsciiB, c)
      [] IndexOfChar(AsciiC, c) # 0 -> 96 + IndexOfChar(AsciiC, c)

\* String.prototype.toLowerCase: character by character, the string being
\* taken apart by halves.
RECURSIVE ToLowerCase(_)
ToLowerCase(s) ==
    IF Len(s) = 0 THEN ""
    ELSE IF Len(s) = 1
    THEN LET k == IndexOfChar(UpperChars, s)
         IN  IF k = 0 THEN s ELSE CharAt(LowerChars, k)
    ELSE LET m == Len(s) \div 2
         IN  ToLowerCase(SubSeq(s, 1, m)) \o ToLowerCase(SubSeq(s, m + 1, Len(s)))

IsSpace(c) == c \in {" ", "\t", "\n", "\r"}

\* String.prototype.trim: from the first to the last character that is no
\* white space.
Trim(s) ==
    LET kept == {i \in 1..Len(s) : ~IsSpace(CharAt(s, i))}
    IN  IF kept = {} THEN ""
        ELSE SubSeq(s, CHOOSE i \in kept : \A j \in kept : i <= j,
                       CHOOSE i \in kept : \A j \in kept : i >= j)

\* content.split('\n'): the sequence of lines, never empty.
RECURSIVE Split(_)
Split(s) ==
    LET k == IndexOfChar(s, "\n")
    IN  IF k = 0 THEN <<s>>
        ELSE <<SubSeq(s, 1, k - 1)>> \o Split(Drop(s, k))

\* line.replace(/<[^>]*>/g, ''): every "<", up to and including the next
\* ">", is removed; a "<" with no ">" after it stays.
RECURSIVE StripTags(_)
StripTags(s) ==
    LET open  == IndexOfChar(s, "<")
        close == IF open = 0 THEN 0 ELSE IndexOfChar(Drop(s, open), ">")
    IN  IF close = 0 THEN s
        ELSE SubSeq(s, 1, open - 1) \o StripTags(Drop(s, open + close))

(***************************************************************************)
(* 32-bit integers.  A JavaScript int32 is an integer in -2^31 .. 2^31-1;  *)
(* the bit operations are computed on its two 16-bit halves, so that no    *)
(* intermediate value leaves the range of the numbers it is made of.       *)
(***************************************************************************)

Two16 == 65536

\* The low and the high 16 bits of the two's complement form of h.
Lo16(h) == h % Two16
Hi16(h) == (h \div Two16) % Two16

\* The int32 whose two's complement form has the halves hi and lo.
FromHalves(hi, lo) ==
    IF hi >= 32768 THEN (hi - Two16) * Two16 + lo ELSE hi * Two16 + lo

\* hash << 4
ShiftLeft4(h) ==
    LET lo == Lo16(h) * 16
        hi == Hi16(h) * 16 + (lo \div Two16)
    IN  FromHalves(hi % Two16, lo % Two16)

\* hash << 5
ShiftLeft5(h) ==
    LET lo == Lo16(h) * 32
        hi == Hi16(h) * 32 + (lo \div Two16)
    IN  FromHalves(hi % Two16, lo % Two16)

\* ToInt32(a - b + c), the value `(a - b) + c` takes once `hash & hash`
\* has coerced it to 32 bits; a and b are int32, c is a UTF-16 code unit.
SubAddToInt32(a, b, c) ==
    LET lo == Lo16(a) - Lo16(b) + c
        hi == Hi16(a) - Hi16(b) + (lo \div Two16)
    IN  FromHalves(hi % Two16, lo % Two16)

Digit(d) == CharAt("0123456789", d + 1)

\* The decimal digits of -n, for n <= 0 ("" for 0).
RECURSIVE DigitsOfNegative(_)
DigitsOfNegative(n) ==
    IF n = 0 THEN ""
    ELSE LET d == (10 - (n % 10)) % 10
         IN  DigitsOfNegative((n + d) \div 10) \o Digit(d)

\* Number.prototype.toString of an integer.
NumberToString(n) ==
    IF n = 0 THEN "0"
    ELSE IF n < 0 THEN "-" \o DigitsOfNegative(n)
    ELSE DigitsOfNegative(0 - n)

\* One round of the loop of generateContentHash.
HashStep(hash, char) == SubAddToInt32(ShiftLeft5(hash), hash, char)

\* The rounds i..j of the loop of generateContentHash, `hash` being the
\* value before round i: the rounds i..m, then the rounds m+1..j.  (The test
\* of h makes TLC compute h before the later rounds; both branches are the
\* same call.)
RECURSIVE HashLoop(_, _, _, _)
HashLoop(content, i, j, hash) ==
    IF i > j THEN hash
    ELSE IF i = j THEN HashStep(hash, CharCode(CharAt(content, i)))
    ELSE LET m == (i + j) \div 2
             h == HashLoop(content, i, m, hash)
         IN  IF h = 0 THEN HashLoop(content, m + 1, j, 0)
                      ELSE HashLoop(content, m + 1, j, h)

\* generateContentHash with `hash` kept from call to call instead of set to
\* 0 at each: it starts from the number of calls made before.
generateContentHashCarried(content) ==
    NumberToString(HashLoop(content, 1, Len(content), unit.returned))

generateContentHash(content) == NumberToString(HashLoop(content, 1, Len(content), 0))

(***************************************************************************)
(* parseRSSContent                                                         *)
(***************************************************************************)

\* The cap on the articles one parse returns.
MaxParsed == 20

\* The length descriptions are cut to.
MaxDescription == 300

\* `new Date().toISOString()`: the time of the call, which the model does
\* not measure.
NowISO == "now"

\* `new Date(dateStr).toISOString()` for the date strings of the modelled
\* feeds; any other string is an invalid date, for which toISOString throws
\* a RangeError ("" stands for the throw).
DateToISO(dateStr) ==
    CASE dateStr = "Mon, 01 Jan 2024 00:00:00 GMT" -> "2024-01-01T00:00:00.000Z"
      [] dateStr = "2024-02-02T10:00:00Z"          -> "2024-02-02T10:00:00.000Z"
      [] OTHER                                     -> ""

\* The in-progress article: a field the code has not set (undefined) is "",
\* which JavaScript treats alike in every test the parser makes of it (`&&`, `||`).
EmptyArticle == [title |-> "", description |-> "", url |-> "", publishedAt |-> ""]

Text(line) == Trim(StripTags(line))

\* The title rule taking texts of 10 characters too (`>= 10`).
SetTitleFromTen(cur, line) ==
    IF Includes(line, "<title>") /\ ~Includes(line, "<![CDATA[")
    THEN LET title == Text(line)
         IN  IF title # "" /\ title # "RSS" /\ Len(title) >= 10
             THEN [cur EXCEPT !.title = title]
             ELSE cur
    ELSE cur

SetTitle(cur, line) ==
    IF Includes(line, "<title>") /\ ~Includes(line, "<![CDATA[")
    THEN LET title == Text(line)
         IN  IF title # "" /\ title # "RSS" /\ Len(title) > 10
             THEN [cur EXCEPT !.title = title]
             ELSE cur
    ELSE cur

SetDescription(cur, line) ==
    IF Includes(line, "<description>") \/ Includes(line, "<summary>")
    THEN LET description == Text(line)
         IN  IF description # "" /\ Len(description) > 20
             THEN [cur EXCEPT !.description = Prefix(description, MaxDescription)]
             ELSE cur
    ELSE cur

SetUrl(cur, line) ==
    IF Includes(line, "<link>") /\ ~Includes(line, "</link>")
    THEN LET url == Text(line)
         IN  IF StartsWith(url, "http") THEN [cur EXCEPT !.url = url] ELSE cur
    ELSE cur

SetPublishedAt(cur, line) ==
    IF Includes(line, "<pubDate>") \/ Includes(line, "<published>")
    THEN LET iso == DateToISO(Text(line))
         IN  [cur EXCEPT !.publishedAt = IF iso = "" THEN NowISO ELSE iso]
    ELSE cur

\* The four field tests of one round of the loop, in the code's order.
ScanLine(cur, line) ==
    SetPublishedAt(SetUrl(SetDescription(SetTitle(cur, line), line), line), line)

\* The article the parser pushes for a complete in-progress article.
ParsedArticle(cur) ==
    [ title       |-> cur.title,
      description |-> cur.description,
      url         |-> cur.url,
      publishedAt |-> IF cur.publishedAt = "" THEN NowISO ELSE cur.publishedAt,
      category    |-> "general" ]

\* The test for a complete article asking for a description as well.
CompleteWithDescription(cur, emitted) ==
    cur.title # "" /\ cur.description # "" /\ cur.url # "" /\ Len(emitted) < MaxParsed

\* The test for a complete article without the cap on the articles.
CompleteUncapped(cur, emitted) ==
    cur.title # "" /\ cur.url # ""

\* `currentArticle.title && currentArticle.url && articles.length < 20`
Complete(cur, emitted) ==
    cur.title # "" /\ cur.url # "" /\ Len(emitted) < MaxParsed

\* The loop with the title and the url alone cleared after a push: the
\* description and the date stay in the in-progress article.
RECURSIVE ParseLinesCarrying(_, _, _, _)
ParseLinesCarrying(lines, i, cur, emitted) ==
    IF i > Len(lines) THEN emitted
    ELSE LET c == ScanLine(cur, lines[i])
         IN  IF Complete(c, emitted)
             THEN ParseLinesCarrying(lines, i + 1, [c EXCEPT !.title = "", !.url = ""],
                                     Append(emitted, ParsedArticle(c)))
             ELSE ParseLinesCarrying(lines, i + 1, c, emitted)

\* The loop over the lines: the four field tests, then the push and
\* `currentArticle = {}` when the in-progress article is complete.
RECURSIVE ParseLines(_, _, _, _)
ParseLines(lines, i, cur, emitted) ==
    IF i > Len(lines) THEN emitted
    ELSE LET c == ScanLine(cur, lines[i])
         IN  IF Complete(c, emitted)
             THEN ParseLines(lines, i + 1, EmptyArticle, Append(emitted, ParsedArticle(c)))
             ELSE ParseLines(lines, i + 1, c, emitted)

parseRSSContent(content) == ParseLines(Split(content), 1, EmptyArticle, <<>>)

(***************************************************************************)
(* discoverRSSFeed                                                         *)
(***************************************************************************)

\* What `new URL(...)` throws (a TypeError), as a value.
InvalidURL == "invalid"

HasScheme(u) == StartsWith(u, "http://") \/ StartsWith(u, "https://")

\* The part of an absolute URL after "scheme://".
AfterScheme(u) == Drop(u, IndexOfChar(u, ":") + 2)

\* scheme://host of an absolute URL.
OriginOf(u) ==
    LET k == IndexOfChar(AfterScheme(u), "/")
    IN  IF k = 0 THEN u ELSE SubSeq(u, 1, Len(u) - Len(AfterScheme(u)) + k - 1)

\* The path of an absolute URL, "/" when it has none.
PathOf(u) ==
    LET k == IndexOfChar(AfterScheme(u), "/")
    IN  IF k = 0 THEN "/" ELSE Drop(AfterScheme(u), k - 1)

\* The path up to and including its last "/".
RECURSIVE DirOf(_)
DirOf(path) ==
    IF path = "" \/ CharAt(path, Len(path)) = "/" THEN path
    ELSE DirOf(SubSeq(path, 1, Len(path) - 1))

\* `new URL(href, base).toString()` for http(s) URLs without query or
\* fragment: an absolute href stands (with "/" for an empty path), a
\* relative one is resolved against the base, and a base that is no absolute
\* URL makes the constructor throw.
NewURL(href, base) ==
    IF HasScheme(href) THEN OriginOf(href) \o PathOf(href)
    ELSE IF ~HasScheme(base) THEN InvalidURL
    ELSE IF StartsWith(href, "/") THEN OriginOf(base) \o href
    ELSE OriginOf(base) \o DirOf(PathOf(base)) \o href

\* What blink.data.scrape throws, as a value.
ScrapeError == "scrape-error"

\* The test of `links.find`: a link field the page does not give
\* (undefined) is "", which `?.includes` treats alike.
IsRssLink(link) ==
    \/ Includes(link.href, "rss")
    \/ Includes(link.href, "feed")
    \/ Includes(link.href, "atom")
    \/ Includes(ToLowerCase(link.text), "rss")
    \/ Includes(ToLowerCase(link.text), "feed")

\* links.find(...): the index of the first link that passes, 0 if none.
FindRssLink(links) ==
    IF \E i \in 1..Len(links) : IsRssLink(links[i])
    THEN CHOOSE i \in 1..Len(links) :
            /\ IsRssLink(links[i])
            /\ \A j \in 1..(i - 1) : ~IsRssLink(links[j])
    ELSE 0

commonPaths == <<"/rss", "/feed", "/rss.xml", "/feed.xml", "/atom.xml">>

NotFound == "null"

\* The loop over commonPaths going on to the later paths after a fetch that
\* succeeded.
RECURSIVE ProbePathsToTheEnd(_, _, _, _)
ProbePathsToTheEnd(websiteUrl, reachable, i, probed) ==
    IF i > Len(commonPaths) THEN [url |-> NotFound, probed |-> probed]
    ELSE LET testUrl == NewURL(commonPaths[i], websiteUrl)
             rest    == ProbePathsToTheEnd(websiteUrl, reachable, i + 1,
                                           Append(probed, testUrl))
         IN  IF testUrl \in reachable
             THEN [url |-> testUrl, probed |-> rest.probed]
             ELSE rest

\* The loop over commonPaths from path i on: `probed` are the URLs fetched
\* so far, `reachable` the URLs blink.data.extractFromUrl fetches without
\* throwing.
RECURSIVE ProbePaths(_, _, _, _)
ProbePaths(websiteUrl, reachable, i, probed) ==
    IF i > Len(commonPaths) THEN [url |-> NotFound, probed |-> probed]
    ELSE LET testUrl == NewURL(commonPaths[i], websiteUrl)
         IN  IF testUrl = InvalidURL
             THEN ProbePaths(websiteUrl, reachable, i + 1, probed)
             ELSE IF testUrl \in reachable
             THEN [url |-> testUrl, probed |-> Append(probed, testUrl)]
             ELSE ProbePaths(websiteUrl, reachable, i + 1, Append(probed, testUrl))

\* discoverRSSFeed(websiteUrl) when the scrape of the site gives `scraped`
\* (ScrapeError, or the sequence of its links): the feed URL returned, or
\* NotFound, and the URLs probed on the way.
discoverRSSFeed(websiteUrl, scraped, reachable) ==
    IF scraped = ScrapeError THEN [url |-> NotFound, probed |-> <<>>]
    ELSE LET k == FindRssLink(scraped)
         IN  IF k # 0 /\ scraped[k].href # ""
             THEN LET url == NewURL(scraped[k].href, websiteUrl)
                  IN  [url |-> IF url = InvalidURL THEN NotFound ELSE url,
                       probed |-> <<>>]
             ELSE ProbePaths(websiteUrl, reachable, 1, <<>>)

(***************************************************************************)
(* The service and its backend                                             *)
(***************************************************************************)

Users == {"u1", "u2"}

\* blink.auth.me() resolving to null.
NoUser == "none"

\* The asynchronous tasks that call the service (event handlers of one or
\* of several tabs); they interleave at every await.
Tasks == {"t1", "t2"}

\* The inputs of the calls.
Sites      == {"https://news.example"}
Categories == {"technology"}
Queries    == {"example", "zebra"}
MissingId  == 0

\* The feed URL the site's feed is found at, by link or by probe.
FeedUrl == "https://news.example/feed"
FeedUrls == {FeedUrl}

\* What blink.data.scrape gives for the site.
ScrapeResults ==
    { ScrapeError,
      <<>>,
      <<[href |-> "/about", text |-> "About"], [href |-> "/feed", text |-> "RSS"]>> }

\* Which URLs blink.data.extractFromUrl fetches during a discovery.
ReachableSets == { {}, {FeedUrl} }

\* The documents a feed URL serves.
FeedOne ==
    "<title>Example Article Title</title>\n<description>A description of the example.</description>\n<link>http://x.com/a"
FeedTwin ==
    "<title>Twin headline text</title>\n<link>http://x.com/b\n<title>Twin headline text</title>\n<link>http://x.com/c"
FeedPair ==
    "<title>Aa tops the chart</title>\n<link>http://x.com/d\n<title>BB tops the chart</title>\n<link>http://x.com/e"
FeedContents == {FeedOne, FeedTwin, FeedPair}

\* parseRSSContent of each document, computed once.
ParsedFeeds == [c \in FeedContents |-> parseRSSContent(c)]

NoSource  == [id |-> MissingId]
NoArticle == [id |-> MissingId]

\* A task that runs no call: the locals of a call at its start.
IdleTask ==
    [ op          |-> "none",
      pc          |-> "idle",
      arg         |-> [id |-> MissingId],
      user        |-> NoUser,
      source      |-> NoSource,
      content     |-> "",
      newArticles |-> <<>>,
      k           |-> 0,
      found       |-> NoArticle,
      result      |-> {},
      status      |-> "none",
      exit        |-> "none",
      fetched     |-> FALSE,
      wrote       |-> FALSE ]

\* Number(flag) > 0 for the flags the store keeps as "0" and "1".
Truthy(flag) == flag = "1"

\* blink.db.newsSources.list({where: {id, userId}})
SourcesById(id, userId) == {s \in sources : s.id = id /\ s.userId = userId}

\* blink.db.newsSources.list({where: {userId, isActive: "1"}})
ActiveSourcesOf(userId) == {s \in sources : s.userId = userId /\ s.isActive = "1"}

\* The existence query with the fingerprint matched against the wrong
\* column (url).
ArticlesByUrl(userId, contentHash) ==
    {a \in articles : a.userId = userId /\ a.url = contentHash}

\* blink.db.articles.list({where: {userId, contentHash}})
ArticlesByHash(userId, contentHash) ==
    {a \in articles : a.userId = userId /\ a.contentHash = contentHash}

\* blink.db.articles.list({where: {id, userId}})
ArticlesById(id, userId) == {a \in articles : a.id = id /\ a.userId = userId}

\* blink.db.articles.list({where: {userId[, category]}}); category "all"
\* (or none) leaves the category out of the where clause.
ArticlesOf(userId, category) ==
    {a \in articles : a.userId = userId /\ (category = "all" \/ a.category = category)}

\* An update that drops the record it was to patch.
UpdateArticleDropping(id, field, value) ==
    {a \in articles : a.id # id}

\* blink.db.articles.update(id, patch): the record with that id, whoever
\* owns it, takes the patch; no record with that id, no change.
UpdateArticle(id, field, value) ==
    {IF a.id = id THEN [a EXCEPT ![field] = value] ELSE a : a \in articles}

\* The ids Date.now() and Math.random() make are taken to be fresh; records
\* are never deleted, so the count of the collection gives a fresh id.
NewSourceId  == Cardinality(sources) + 1
NewArticleId == Cardinality(articles) + 1

\* The article-to-record mapping of getUserArticles and searchArticles.
ToArticle(a) ==
    [a EXCEPT !.isBookmarked = Truthy(a.isBookmarked), !.isRead = Truthy(a.isRead)]

\* The source-to-record mapping of getUserSources.
ToSource(s) == [s EXCEPT !.isActive = Truthy(s.isActive)]

\* The filter of searchArticles.
MatchesQuery(a, query) ==
    LET searchTerm == ToLowerCase(query)
    IN  \/ Includes(ToLowerCase(a.title), searchTerm)
        \/ Includes(ToLowerCase(a.description), searchTerm)

\* The bound of the model: the calls made of the service in one behaviour.
MaxCalls == 3

\* No pure function is under study, and no component is mounted.
NoUnit == [fn |-> "none"]
NoUI   == [pc |-> "unmounted"]

\* The session starts signed out, with the store `stored` of sources.
InitWith(stored) ==
    /\ auth = NoUser
    /\ sources = stored
    /\ articles = {}
    /\ feed \in [FeedUrls -> FeedContents]
    /\ task = [t \in Tasks |-> IdleTask]
    /\ overlapped = FALSE
    /\ calls = 0
    /\ unit = NoUnit
    /\ ui = NoUI

\* A new account: nothing stored.
Init == InitWith({})

\* A store written before this session: a source with its feed URL, and one
\* whose record has no rssUrl (the field is optional in NewsSource).
StoredSources ==
    { [id |-> 1, userId |-> "u1", url |-> "https://news.example",
       rssUrl |-> FeedUrl, category |-> "technology", isActive |-> "1"],
      [id |-> 2, userId |-> "u1", url |-> "https://news.example",
       rssUrl |-> "", category |-> "technology", isActive |-> "1"] }

InitStored == InitWith(StoredSources)

(***************************************************************************)
(* The environment: the session and the feeds                              *)
(***************************************************************************)

Login(u) ==
    /\ auth # u
    /\ auth' = u
    /\ UNCHANGED <<sources, articles, feed, task, overlapped, calls, unit, ui>>

Logout ==
    /\ auth # NoUser
    /\ auth' = NoUser
    /\ UNCHANGED <<sources, articles, feed, task, overlapped, calls, unit, ui>>

PublishFeed(u, content) ==
    /\ feed[u] # content
    /\ feed' = [feed EXCEPT ![u] = content]
    /\ UNCHANGED <<auth, sources, articles, task, overlapped, calls, unit, ui>>

(***************************************************************************)
(* Calls                                                                   *)
(***************************************************************************)

Free(t) == task[t].pc \in {"idle", "done"}

InRefresh(t) ==
    task[t].pc \in {"refresh_auth", "refresh_load", "refresh_fetch",
                    "refresh_check", "refresh_create"}

\* The task's record when it calls op with arg.
Called(op, arg, pc) ==
    [IdleTask EXCEPT !.op = op, !.arg = arg, !.pc = pc, !.status = "running"]

\* The task's record when its call ends: returns (status "returned") or
\* throws (status "raised") at the place `exit` names, with `result`.
Finish(rec, status, exit, result) ==
    [rec EXCEPT !.pc = "done", !.status = status, !.exit = exit,
                !.result = result, !.newArticles = <<>>, !.k = 0,
                !.found = NoArticle]

\* A handler of the mounted component awaits the call task t runs.
Awaited(t) == ui.pc # "unmounted" /\ ui.awaits[t] # "none"

\* A call starts on a task that runs none.  What an earlier call returned has
\* been taken by its caller by then, unless a handler still awaits it: the
\* records of the other ended calls are cleared.
Call(t, op, arg, pc) ==
    /\ Free(t)
    /\ calls < MaxCalls
    /\ calls' = calls + 1
    /\ task' = [o \in Tasks |-> IF o = t THEN Called(op, arg, pc)
                                ELSE IF Free(o) /\ ~Awaited(o) THEN IdleTask
                                ELSE task[o]]
    /\ overlapped' = (overlapped \/ (pc = "refresh_auth" /\ \E o \in Tasks \ {t} : InRefresh(o)))
    /\ UNCHANGED <<auth, sources, articles, feed, unit>>

CallAddNewsSource(t) ==
    /\ \E url \in Sites, category \in Categories :
            Call(t, "addNewsSource", [url |-> url, category |-> category], "add_auth")
    /\ UNCHANGED ui

CallGetUserSources(t) ==
    /\ Call(t, "getUserSources", [id |-> MissingId], "sources_auth")
    /\ UNCHANGED ui

CallGetUserArticles(t) ==
    /\ \E category \in {"all"} \cup Categories :
            Call(t, "getUserArticles", [category |-> category], "articles_auth")
    /\ UNCHANGED ui

CallRefreshSourceArticles(t) ==
    /\ \E id \in {s.id : s \in sources} \cup {MissingId} :
            Call(t, "refreshSourceArticles", [id |-> id], "refresh_auth")
    /\ UNCHANGED ui

CallToggleBookmark(t) ==
    /\ \E id \in {a.id : a \in articles} \cup {MissingId} :
            Call(t, "toggleBookmark", [id |-> id], "toggle_auth")
    /\ UNCHANGED ui

CallMarkAsRead(t) ==
    /\ \E id \in {a.id : a \in articles} \cup {MissingId} :
            Call(t, "markAsRead", [id |-> id], "mark_auth")
    /\ UNCHANGED ui

CallSearchArticles(t) ==
    /\ \E query \in Queries :
            Call(t, "searchArticles", [query |-> query], "search_auth")
    /\ UNCHANGED ui

\* A step of task t that leaves the stores alone and takes the task to rec.
Local(t, rec) ==
    /\ task' = [task EXCEPT ![t] = rec]
    /\ UNCHANGED <<auth, sources, articles, feed, overlapped, calls, unit, ui>>

\* The call going on with no user resolved (no `if (!user) return`).
AuthOrProceed(t, pc, next) ==
    /\ task[t].pc = pc
    /\ \E ok \in BOOLEAN :
          Local(t, IF ~ok THEN Finish(task[t], "returned", "caught", {})
                   ELSE [task[t] EXCEPT !.pc = next, !.user = auth])

\* `const user = await blink.auth.me(); if (!user) return <empty>` inside
\* a try whose catch returns <empty> too.
AuthOrReturn(t, pc, next) ==
    /\ task[t].pc = pc
    /\ \E ok \in BOOLEAN :
          Local(t, IF ~ok THEN Finish(task[t], "returned", "caught", {})
                   ELSE IF auth = NoUser
                   THEN Finish(task[t], "returned", "unauthenticated", {})
                   ELSE [task[t] EXCEPT !.pc = next, !.user = auth])

(***************************************************************************)
(* getUserSources, getUserArticles, searchArticles                         *)
(***************************************************************************)

GetUserSourcesAuth(t) == AuthOrReturn(t, "sources_auth", "sources_list")

GetUserSourcesList(t) ==
    /\ task[t].pc = "sources_list"
    /\ \E ok \in BOOLEAN :
          Local(t, IF ~ok THEN Finish(task[t], "returned", "caught", {})
                   ELSE Finish(task[t], "returned", "completed",
                               {ToSource(s) : s \in ActiveSourcesOf(task[t].user)}))

GetUserArticlesAuth(t) == AuthOrReturn(t, "articles_auth", "articles_list")

\* getUserArticles with a catch that throws the error on.
GetUserArticlesListRethrows(t) ==
    /\ task[t].pc = "articles_list"
    /\ \E ok \in BOOLEAN :
          Local(t, IF ~ok THEN Finish(task[t], "raised", "caught", {})
                   ELSE Finish(task[t], "returned", "completed",
                               {ToArticle(a) : a \in ArticlesOf(task[t].user, task[t].arg.category)}))

GetUserArticlesList(t) ==
    /\ task[t].pc = "articles_list"
    /\ \E ok \in BOOLEAN :
          Local(t, IF ~ok THEN Finish(task[t], "returned", "caught", {})
                   ELSE Finish(task[t], "returned", "completed",
                               {ToArticle(a) : a \in ArticlesOf(task[t].user, task[t].arg.category)}))

SearchAuth(t) == AuthOrReturn(t, "search_auth", "search_list")

SearchList(t) ==
    /\ task[t].pc = "search_list"
    /\ \E ok \in BOOLEAN :
          Local(t, IF ~ok THEN Finish(task[t], "returned", "caught", {})
                   ELSE Finish(task[t], "returned", "completed",
                               {ToArticle(a) : a \in {b \in ArticlesOf(task[t].user, "all") :
                                                        MatchesQuery(b, task[t].arg.query)}}))

(***************************************************************************)
(* refreshSourceArticles                                                   *)
(***************************************************************************)

\* What fetchRSSFeed's catch stands for in the task's `content`.
FetchError == "fetch-error"

\* The candidates the documents of the model parse to, and for each the
\* value of generateContentHash(article.title + article.description).
Candidates ==
    UNION {{ParsedFeeds[c][i] : i \in 1..Len(ParsedFeeds[c])} : c \in FeedContents}

ContentHashes ==
    [article \in Candidates |-> generateContentHash(article.title \o article.description)]

\* The fingerprint taken of the title, the description and the url.
CandidateHashWithUrl(article) ==
    generateContentHash(article.title \o article.description \o article.url)

CandidateHash(article) == ContentHashes[article]

\* The record made with the category the parser gave the candidate.
ArticleRecordOwnCategory(id, userId, source, article, contentHash) ==
    [ id           |-> id,
      userId       |-> userId,
      sourceId     |-> source.id,
      title        |-> article.title,
      description  |-> article.description,
      url          |-> article.url,
      publishedAt  |-> article.publishedAt,
      category     |-> article.category,
      isBookmarked |-> "0",
      isRead       |-> "0",
      contentHash  |-> contentHash ]

\* The record blink.db.articles.create is given.
ArticleRecord(id, userId, source, article, contentHash) ==
    [ id           |-> id,
      userId       |-> userId,
      sourceId     |-> source.id,
      title        |-> article.title,
      description  |-> article.description,
      url          |-> article.url,
      publishedAt  |-> article.publishedAt,
      category     |-> source.category,
      isBookmarked |-> "0",
      isRead       |-> "0",
      contentHash  |-> contentHash ]

\* The record created with the fingerprint of the title alone.
NewArticleHashOfTitle(id, userId, source, article) ==
    ArticleRecord(id, userId, source, article, generateContentHash(article.title))

\* The record created with the fingerprint of the url.
NewArticleHashOfUrl(id, userId, source, article) ==
    ArticleRecord(id, userId, source, article, generateContentHash(article.url))

\* The record created for a candidate: `contentHash` is the value the
\* existence query was made with.
NewArticle(id, userId, source, article) ==
    ArticleRecord(id, userId, source, article, CandidateHash(article))

\* refreshSourceArticles with a try and catch around each candidate: a
\* failure on candidate k is passed over and the loop goes on.
RefreshSkipsCandidate(t, rec, exit) ==
    IF exit = "caught" /\ rec.k > 0 /\ rec.k < Len(rec.newArticles)
    THEN task' = [task EXCEPT ![t] = [rec EXCEPT !.k = rec.k + 1, !.pc = "refresh_check"]]
    ELSE task' = [task EXCEPT ![t] =
                    Finish(rec, "returned",
                           IF exit = "caught" /\ rec.k > 0 THEN "completed" ELSE exit,
                           rec.result)]

\* refreshSourceArticles with a catch that throws the error on.
RefreshRethrows(t, rec, exit) ==
    task' = [task EXCEPT ![t] =
               Finish(rec, IF exit = "caught" THEN "raised" ELSE "returned", exit, rec.result)]

\* refreshSourceArticles returns at `exit`.  Called from addNewsSource (line
\* 98), the return is followed by addNewsSource's `return source`; the
\* result of the task is the one set before the call.
RefreshReturns(t, rec, exit) ==
    task' = [task EXCEPT ![t] = Finish(rec, "returned", exit, rec.result)]

\* The end of one round of the loop over newArticles.
NextCandidate(t, rec) ==
    IF rec.k = Len(rec.newArticles)
    THEN RefreshReturns(t, rec, "completed")
    ELSE /\ task' = [task EXCEPT ![t] = [rec EXCEPT !.k = rec.k + 1, !.pc = "refresh_check"]]

RefreshAuth(t) ==
    /\ task[t].pc = "refresh_auth"
    /\ \E ok \in BOOLEAN :
          IF ~ok THEN RefreshReturns(t, task[t], "caught")
          ELSE IF auth = NoUser THEN RefreshReturns(t, task[t], "unauthenticated")
          ELSE /\ task' = [task EXCEPT ![t] = [task[t] EXCEPT !.pc = "refresh_load", !.user = auth]]
    /\ UNCHANGED <<auth, sources, articles, feed, overlapped, calls, unit, ui>>

\* The source lookup without the test of source.rssUrl.
RefreshLoadSourceAnyUrl(t) ==
    /\ task[t].pc = "refresh_load"
    /\ \E ok \in BOOLEAN :
          LET found == SourcesById(task[t].arg.id, task[t].user)
          IN  IF ~ok THEN RefreshReturns(t, task[t], "caught")
              ELSE IF found = {} THEN RefreshReturns(t, task[t], "no-source")
              ELSE task' = [task EXCEPT ![t] =
                              [task[t] EXCEPT !.pc = "refresh_fetch",
                                              !.source = CHOOSE s \in found : TRUE]]
    /\ UNCHANGED <<auth, sources, articles, feed, overlapped, calls, unit, ui>>

RefreshLoadSource(t) ==
    /\ task[t].pc = "refresh_load"
    /\ \E ok \in BOOLEAN :
          LET found == SourcesById(task[t].arg.id, task[t].user)
          IN  IF ~ok THEN RefreshReturns(t, task[t], "caught")
              ELSE IF found = {} THEN RefreshReturns(t, task[t], "no-source")
              ELSE LET source == CHOOSE s \in found : TRUE
                   IN  IF source.rssUrl = ""
                       THEN RefreshReturns(t, [task[t] EXCEPT !.source = source], "no-feed-url")
                       ELSE /\ task' = [task EXCEPT ![t] =
                                          [task[t] EXCEPT !.pc = "refresh_fetch", !.source = source]]
    /\ UNCHANGED <<auth, sources, articles, feed, overlapped, calls, unit, ui>>

\* fetchRSSFeed: the articles parsed from what the feed URL serves, or []
\* when the fetch throws (the backend fails, or the URL serves nothing);
\* then the loop starts, or ends at once.
RefreshFetch(t) ==
    /\ task[t].pc = "refresh_fetch"
    /\ \E ok \in BOOLEAN :
          LET rssUrl  == task[t].source.rssUrl
              content == IF ok /\ rssUrl \in DOMAIN feed THEN feed[rssUrl] ELSE FetchError
              parsed  == IF content = FetchError THEN <<>> ELSE ParsedFeeds[content]
              rec     == [task[t] EXCEPT !.content = content, !.newArticles = parsed,
                                         !.fetched = TRUE]
          IN  IF parsed = <<>> THEN RefreshReturns(t, rec, "completed")
              ELSE /\ task' = [task EXCEPT ![t] = [rec EXCEPT !.k = 1, !.pc = "refresh_check"]]
    /\ UNCHANGED <<auth, sources, articles, feed, overlapped, calls, unit, ui>>

\* The existence query for candidate k.
RefreshCheck(t) ==
    /\ task[t].pc = "refresh_check"
    /\ \E ok \in BOOLEAN :
          LET article  == task[t].newArticles[task[t].k]
              existing == ArticlesByHash(task[t].user, CandidateHash(article))
          IN  IF ~ok THEN RefreshReturns(t, task[t], "caught")
              ELSE IF existing = {}
              THEN /\ task' = [task EXCEPT ![t] = [task[t] EXCEPT !.pc = "refresh_create"]]
              ELSE NextCandidate(t, task[t])
    /\ UNCHANGED <<auth, sources, articles, feed, overlapped, calls, unit, ui>>

\* The create for candidate k.
RefreshCreate(t) ==
    /\ task[t].pc = "refresh_create"
    /\ \E ok \in BOOLEAN :
          LET rec == [task[t] EXCEPT !.wrote = TRUE]
          IN  IF ~ok
              THEN /\ RefreshReturns(t, rec, "caught")
                   /\ UNCHANGED articles
              ELSE /\ articles' = articles \cup
                          {NewArticle(NewArticleId, rec.user, rec.source, rec.newArticles[rec.k])}
                   /\ NextCandidate(t, rec)
    /\ UNCHANGED <<auth, sources, feed, overlapped, calls, unit, ui>>

(***************************************************************************)
(* addNewsSource                                                           *)
(***************************************************************************)

\* The catch of addNewsSource throws the error on.
AddAuth(t) ==
    /\ task[t].pc = "add_auth"
    /\ \E ok \in BOOLEAN :
          Local(t, IF ~ok THEN Finish(task[t], "raised", "rethrown", {})
                   ELSE IF auth = NoUser
                   THEN Finish(task[t], "raised", "not-authenticated", {})
                   ELSE [task[t] EXCEPT !.pc = "add_discover", !.user = auth])

\* The source record addNewsSource builds from the feed URL discovered.
SourceOf(rec, rssUrl) ==
    [ id       |-> MissingId,
      userId   |-> rec.user,
      url      |-> rec.arg.url,
      rssUrl   |-> rssUrl,
      category |-> rec.arg.category,
      isActive |-> "1" ]

\* The source record built whatever discovery returned (no throw).
DiscoveredUnchecked(rec, rssUrl) ==
    [rec EXCEPT !.pc = "add_create", !.source = SourceOf(rec, rssUrl)]

\* `if (!rssUrl) throw new Error('Could not find RSS feed ...')`, and the
\* source record otherwise.
Discovered(rec, rssUrl) ==
    IF rssUrl = NotFound
    THEN Finish(rec, "raised", "feed-not-found", {})
    ELSE [rec EXCEPT !.pc = "add_create", !.source = SourceOf(rec, rssUrl)]

\* discoverRSSFeed, and what follows from its result.
AddDiscover(t) ==
    /\ task[t].pc = "add_discover"
    /\ \E scraped \in ScrapeResults, reachable \in ReachableSets :
          Local(t, Discovered([task[t] EXCEPT !.fetched = TRUE],
                              discoverRSSFeed(task[t].arg.url, scraped, reachable).url))

\* blink.db.newsSources.create, and the call of refreshSourceArticles.
AddCreate(t) ==
    /\ task[t].pc = "add_create"
    /\ \E ok \in BOOLEAN :
          LET source == [task[t].source EXCEPT !.id = NewSourceId]
              rec    == [task[t] EXCEPT !.wrote = TRUE]
          IN  IF ~ok
              THEN /\ task' = [task EXCEPT ![t] = Finish(rec, "raised", "rethrown", {})]
                   /\ UNCHANGED <<sources, overlapped>>
              ELSE /\ sources' = sources \cup {source}
                   /\ task' = [task EXCEPT ![t] =
                                 [rec EXCEPT !.pc = "refresh_auth", !.source = source,
                                             !.arg = [id |-> source.id],
                                             !.user = NoUser,
                                             !.result = {ToSource(source)}]]
                   /\ overlapped' = (overlapped \/ \E o \in Tasks \ {t} : InRefresh(o))
    /\ UNCHANGED <<auth, articles, feed, calls, unit, ui>>

(***************************************************************************)
(* toggleBookmark, markAsRead                                              *)
(***************************************************************************)

ToggleAuth(t) == AuthOrReturn(t, "toggle_auth", "toggle_list")

ToggleList(t) ==
    /\ task[t].pc = "toggle_list"
    /\ \E ok \in BOOLEAN :
          LET found == ArticlesById(task[t].arg.id, task[t].user)
          IN  Local(t, IF ~ok THEN Finish(task[t], "returned", "caught", {})
                       ELSE IF found = {} THEN Finish(task[t], "returned", "no-article", {})
                       ELSE [task[t] EXCEPT !.pc = "toggle_update",
                                            !.found = CHOOSE a \in found : TRUE])

\* toggleBookmark writing "1" whatever the flag was.
ToggleUpdateSets(t) ==
    /\ task[t].pc = "toggle_update"
    /\ \E ok \in BOOLEAN :
          LET rec == [task[t] EXCEPT !.wrote = TRUE]
          IN  /\ articles' = IF ok THEN UpdateArticle(rec.arg.id, "isBookmarked", "1")
                                   ELSE articles
              /\ task' = [task EXCEPT ![t] =
                            Finish(rec, "returned", IF ok THEN "completed" ELSE "caught", {})]
    /\ UNCHANGED <<auth, sources, feed, overlapped, calls, unit, ui>>

\* `newBookmarkStatus` from the record the list gave, and the update.
ToggleUpdate(t) ==
    /\ task[t].pc = "toggle_update"
    /\ \E ok \in BOOLEAN :
          LET newBookmarkStatus == IF Truthy(task[t].found.isBookmarked) THEN "0" ELSE "1"
              rec == [task[t] EXCEPT !.wrote = TRUE]
          IN  /\ articles' = IF ok THEN UpdateArticle(rec.arg.id, "isBookmarked", newBookmarkStatus)
                                   ELSE articles
              /\ task' = [task EXCEPT ![t] =
                            Finish(rec, "returned", IF ok THEN "completed" ELSE "caught", {})]
    /\ UNCHANGED <<auth, sources, feed, overlapped, calls, unit, ui>>

MarkAuth(t) == AuthOrReturn(t, "mark_auth", "mark_update")

MarkUpdate(t) ==
    /\ task[t].pc = "mark_update"
    /\ \E ok \in BOOLEAN :
          LET rec == [task[t] EXCEPT !.wrote = TRUE]
          IN  /\ articles' = IF ok THEN UpdateArticle(rec.arg.id, "isRead", "1") ELSE articles
              /\ task' = [task EXCEPT ![t] =
                            Finish(rec, "returned", IF ok THEN "completed" ELSE "caught", {})]
    /\ UNCHANGED <<auth, sources, feed, overlapped, calls, unit, ui>>

(***************************************************************************)
(* The specifications                                                      *)
(***************************************************************************)

\* The steps of addNewsSource up to its call of refreshSourceArticles.
AddStep(t) ==
    \/ CallAddNewsSource(t) \/ AddAuth(t) \/ AddDiscover(t) \/ AddCreate(t)

\* The steps of refreshSourceArticles, called by the client or by
\* addNewsSource.
RefreshStep(t) ==
    \/ CallRefreshSourceArticles(t) \/ RefreshAuth(t) \/ RefreshLoadSource(t)
    \/ RefreshFetch(t) \/ RefreshCheck(t) \/ RefreshCreate(t)

IngestStep(t) == AddStep(t) \/ RefreshStep(t)

\* The steps of the operations on what has been ingested.
UserStep(t) ==
    \/ CallGetUserSources(t) \/ GetUserSourcesAuth(t) \/ GetUserSourcesList(t)
    \/ CallGetUserArticles(t) \/ GetUserArticlesAuth(t) \/ GetUserArticlesList(t)
    \/ CallToggleBookmark(t) \/ ToggleAuth(t) \/ ToggleList(t) \/ ToggleUpdate(t)
    \/ CallMarkAsRead(t) \/ MarkAuth(t) \/ MarkUpdate(t)
    \/ CallSearchArticles(t) \/ SearchAuth(t) \/ SearchList(t)

Session ==
    \/ \E u \in Users : Login(u)
    \/ Logout

Environment ==
    \/ Session
    \/ \E u \in FeedUrls, content \in FeedContents : PublishFeed(u, content)

\* The task of a client that makes its calls one after the other, and the
\* task of a refresh that runs beside it (the refresh button, another tab).
Main == "t1"
Background == "t2"

\* Ingestion, call after call: no two calls overlap.
NextSeq == Environment \/ IngestStep(Main)

SpecSeq == Init /\ [][NextSeq]_vars

\* Ingestion by two tasks that interleave at every await, the feed staying
\* as it is.
Next == Session \/ IngestStep(Main) \/ RefreshStep(Background)

Spec == Init /\ [][Next]_vars

\* Every operation of the service, call after call.
NextOps == Session \/ IngestStep(Main) \/ UserStep(Main)

SpecOps == Init /\ [][NextOps]_vars

\* Refreshes, call after call, of the sources of a store written earlier.
NextStored == Session \/ RefreshStep(Main)

SpecStored == InitStored /\ [][NextStored]_vars
(***************************************************************************)
(* discoverRSSFeed taken alone                                             *)
(***************************************************************************)

\* The sites discovery is run for: one at the root, one under a path.
DiscoverySites == {"https://news.example", "https://blog.example/en/"}

\* The links a scraped page gives.
PageLinks ==
    { [href |-> "/about",                        text |-> "About"],
      [href |-> "/feed",                         text |-> "RSS"],
      [href |-> "/syndicate",                    text |-> "Atom"],
      [href |-> "/RSS.XML",                      text |-> "Subscribe"],
      [href |-> "",                              text |-> "Our feed"],
      [href |-> "http://feeds.example/atom.xml", text |-> ""] }

\* The pages blink.data.scrape gives: up to two links.
Pages ==
    {<<>>} \cup {<<a>> : a \in PageLinks}
           \cup {<<a, b>> : a \in PageLinks, b \in PageLinks}

\* The URLs of the site the probes can ask for.
ProbeUrls(websiteUrl) == {NewURL(commonPaths[i], websiteUrl) : i \in 1..Len(commonPaths)}

\* The value of a function that has not been applied yet.
Pending == [url |-> "pending"]

\* discoverRSSFeed is about to run for a site, with the page the scrape
\* will give and the URLs the probes will find.
InitDiscovery ==
    /\ auth = NoUser
    /\ sources = {}
    /\ articles = {}
    /\ feed = [u \in FeedUrls |-> FeedOne]
    /\ task = [t \in Tasks |-> IdleTask]
    /\ overlapped = FALSE
    /\ calls = 0
    /\ ui = NoUI
    /\ \E websiteUrl \in DiscoverySites, page \in Pages, scrapes \in BOOLEAN :
         \E reachable \in SUBSET ProbeUrls(websiteUrl) :
            unit = [fn |-> "discoverRSSFeed", websiteUrl |-> websiteUrl,
                    scraped |-> IF scrapes THEN page ELSE ScrapeError,
                    reachable |-> reachable, value |-> Pending]

\* The call of discoverRSSFeed.
Discover ==
    /\ unit.fn = "discoverRSSFeed"
    /\ unit.value = Pending
    /\ unit' = [unit EXCEPT !.value =
                   discoverRSSFeed(unit.websiteUrl, unit.scraped, unit.reachable)]
    /\ UNCHANGED <<auth, sources, articles, feed, task, overlapped, calls, ui>>

NextDiscovery == Discover

SpecDiscovery == InitDiscovery /\ [][NextDiscovery]_vars

(***************************************************************************)
(* parseRSSContent taken alone                                             *)
(***************************************************************************)

\* The lines the documents are made of: title lines with a text that
\* passes, with the texts "RSS" and "", with a text of 10 and of 11
\* characters; link lines left open, closed, and with no http URL; a
\* description line; a title and a link on one line.
DocumentLines ==
    { "<title>Example Article Title</title>",
      "<title>RSS</title>",
      "<title></title>",
      "<title>Ten chars!</title>",
      "<title>Eleven char</title>",
      "<link>http://x.com/a",
      "<link>http://x.com/a</link>",
      "<link>ftp://x.com/a",
      "<description>A description of the example.</description>",
      "<title>Example Article Title</title><link>http://x.com/a</link>" }

\* The documents of up to three lines.
Documents ==
    {""} \cup DocumentLines
         \cup {a \o "\n" \o b : a \in DocumentLines, b \in DocumentLines}
         \cup {a \o "\n" \o b \o "\n" \o c :
                 a \in DocumentLines, b \in DocumentLines, c \in DocumentLines}

\* A feed of n items, each a title line and a link line.
RECURSIVE FeedOfItems(_)
FeedOfItems(k) ==
    IF k = 0 THEN ""
    ELSE FeedOfItems(k - 1) \o "<title>Example Article Title</title>\n<link>http://x.com/a\n"

\* More items than one parse returns.
ManyItems == 22

\* The lines of two items: their title and link lines, a description line
\* and a pubDate line.
ItemLines ==
    { "<title>Example Article Title</title>",
      "<link>http://x.com/a",
      "<title>Another Article Title</title>",
      "<link>http://x.com/b",
      "<description>A description of the example.</description>",
      "<pubDate>Mon, 01 Jan 2024 00:00:00 GMT</pubDate>" }

\* The lines of the longest of the documents made of them.
MaxItemLines == 5

\* The documents of 1 to n lines of the items.
RECURSIVE ItemDocuments(_)
ItemDocuments(n) ==
    IF n <= 1 THEN ItemLines
    ELSE LET shorter == ItemDocuments(n - 1)
         IN  shorter \cup {d \o "\n" \o l : d \in shorter, l \in ItemLines}

\* parseRSSContent is about to run on a document.
InitParse ==
    /\ auth = NoUser
    /\ sources = {}
    /\ articles = {}
    /\ feed = [u \in FeedUrls |-> FeedOne]
    /\ task = [t \in Tasks |-> IdleTask]
    /\ overlapped = FALSE
    /\ calls = 0
    /\ ui = NoUI
    /\ \E content \in Documents \cup ItemDocuments(MaxItemLines) \cup {FeedOfItems(ManyItems)} :
          unit = [fn |-> "parseRSSContent", content |-> content,
                  returned |-> FALSE, value |-> <<>>]

\* The call of parseRSSContent.
Parse ==
    /\ unit.fn = "parseRSSContent"
    /\ ~unit.returned
    /\ unit' = [unit EXCEPT !.returned = TRUE, !.value = parseRSSContent(unit.content)]
    /\ UNCHANGED <<auth, sources, articles, feed, task, overlapped, calls, ui>>

NextParse == Parse

SpecParse == InitParse /\ [][NextParse]_vars

(***************************************************************************)
(* generateContentHash taken alone                                         *)
(***************************************************************************)

\* The characters of the contents: the lowest and the highest printable
\* ASCII character and a letter.
HashAlphabet == {" ", "A", "~"}

\* The longest content; from 6 characters on the hash leaves 31 bits.
MaxContentLength == 7

\* The strings over HashAlphabet of up to k characters.
RECURSIVE ContentsUpTo(_)
ContentsUpTo(k) ==
    IF k = 0 THEN {""}
    ELSE LET shorter == ContentsUpTo(k - 1)
         IN  shorter \cup {s \o c : s \in shorter, c \in HashAlphabet}

\* The calls made of generateContentHash on one content.
MaxHashCalls == 2

\* generateContentHash is about to be called on a content; `first` and
\* `value` are what its first and its latest call returned, `firstBy` and
\* `by` the user signed in at those calls.
InitHash ==
    /\ auth = NoUser
    /\ sources = {}
    /\ articles = {}
    /\ feed = [u \in FeedUrls |-> FeedOne]
    /\ task = [t \in Tasks |-> IdleTask]
    /\ overlapped = FALSE
    /\ calls = 0
    /\ ui = NoUI
    /\ \E content \in ContentsUpTo(MaxContentLength) :
          unit = [fn |-> "generateContentHash", content |-> content,
                  returned |-> 0, first |-> "", value |-> "",
                  firstBy |-> NoUser, by |-> NoUser]

\* A call of generateContentHash.
Hash ==
    /\ unit.fn = "generateContentHash"
    /\ unit.returned < MaxHashCalls
    /\ LET hash == generateContentHash(unit.content)
       IN  unit' = [unit EXCEPT !.returned = unit.returned + 1,
                                !.value = hash,
                                !.first = IF unit.returned = 0 THEN hash ELSE unit.first,
                                !.by = auth,
                                !.firstBy = IF unit.returned = 0 THEN auth ELSE unit.firstBy]
    /\ UNCHANGED <<auth, sources, articles, feed, task, overlapped, calls, ui>>

\* The calls, with the session going on between them.
NextHash == Session \/ Hash

SpecHash == InitHash /\ [][NextHash]_vars

(***************************************************************************)
(* The App component: handleRefresh, performSearch, handleBookmark         *)
(***************************************************************************)

\* The toasts of the handlers, by title.
NoToast == "none"

\* No handler awaits the call of the task.
NotAwaited == "none"

\* The component once mounted for `user`, with the sources loadUserData has
\* set.  `pc` is where handleRefresh is and `queue` the sources it has
\* still to go through; awaits[t] is the handler that awaits the call task t
\* runs.  `handler` is the handler that ended last, `toast` the toast it
\* showed and `failed` history: a call it made of the service ended in the
\* service's catch, or its fetch of the feed gave nothing (`ingestFailed`
\* gathers that while handleRefresh runs).  `shownFor` is history: the query
\* of the search whose results searchResults holds, "" once they are
\* cleared.  withResults[t] is the `searchResults.length > 0` of the render
\* whose handleBookmark awaits on task t.
MountedUI(user, loaded) ==
    [ pc            |-> "idle",
      handler       |-> "none",
      user          |-> user,
      sources       |-> loaded,
      articles      |-> {},
      searchQuery   |-> "",
      searchResults |-> {},
      shownFor      |-> "",
      isRefreshing  |-> FALSE,
      isSearching   |-> FALSE,
      queue         |-> <<>>,
      awaits        |-> [t \in Tasks |-> NotAwaited],
      withResults   |-> [t \in Tasks |-> FALSE],
      toast         |-> NoToast,
      failed        |-> FALSE,
      ingestFailed  |-> FALSE ]

\* What the search box can hold.
TypedQueries == Queries \cup {"", "  "}

\* A call of the service that ended without doing its work: by its catch,
\* or by fetchRSSFeed returning nothing.
EndedInFailure(rec) == rec.exit = "caught" \/ rec.content = FetchError

\* u1 is signed in, the stored sources are loaded in some order.
InitUI ==
    /\ auth = "u1"
    /\ sources = StoredSources
    /\ articles = {}
    /\ feed \in [FeedUrls -> FeedContents]
    /\ task = [t \in Tasks |-> IdleTask]
    /\ overlapped = FALSE
    /\ calls = 0
    /\ unit = NoUnit
    /\ \E loaded \in {<<1, 2>>, <<2, 1>>} : ui = MountedUI("u1", loaded)

\* A handler makes the call on task t, to await it.
AwaitCall(t, op, arg, pc) ==
    /\ ~Awaited(t)
    /\ Call(t, op, arg, pc)

\* The call `handler` awaits on task t has settled.
Settled(t, handler) ==
    /\ ui.awaits[t] = handler
    /\ task[t].pc = "done"

\* handleRefresh up to its first await.
HandleRefresh ==
    /\ ui.pc = "idle"
    /\ ui.user # NoUser
    /\ ui' = [ui EXCEPT !.pc = "refresh_loop", !.isRefreshing = TRUE,
                        !.queue = ui.sources, !.ingestFailed = FALSE]
    /\ UNCHANGED <<auth, sources, articles, feed, task, overlapped, calls, unit>>

\* refreshSourceArticles called for the next source and not awaited: the
\* loop goes on at once.
RefreshNextSourceNotAwaited(t) ==
    /\ ui.pc = "refresh_loop"
    /\ ui.queue # <<>>
    /\ AwaitCall(t, "refreshSourceArticles", [id |-> Head(ui.queue)], "refresh_auth")
    /\ ui' = [ui EXCEPT !.queue = Tail(ui.queue), !.awaits[t] = "handleRefresh"]

\* `await NewsService.refreshSourceArticles(source.id)` for the next source.
RefreshNextSource(t) ==
    /\ ui.pc = "refresh_loop"
    /\ ui.queue # <<>>
    /\ AwaitCall(t, "refreshSourceArticles", [id |-> Head(ui.queue)], "refresh_auth")
    /\ ui' = [ui EXCEPT !.pc = "refresh_await", !.awaits[t] = "handleRefresh"]

\* The catch and the finally of handleRefresh.
RefreshCaught ==
    [ui EXCEPT !.pc = "idle", !.handler = "handleRefresh", !.toast = "Refresh Error",
               !.failed = ui.ingestFailed, !.isRefreshing = FALSE, !.queue = <<>>]

\* The call for the source has settled: on to the next source, or to
\* the catch if it threw.
RefreshSourceSettled(t) ==
    /\ ui.pc = "refresh_await"
    /\ Settled(t, "handleRefresh")
    /\ ui' = IF task[t].status = "raised"
             THEN [RefreshCaught EXCEPT !.awaits[t] = NotAwaited]
             ELSE [ui EXCEPT !.pc = "refresh_loop", !.queue = Tail(ui.queue),
                             !.awaits[t] = NotAwaited,
                             !.ingestFailed = ui.ingestFailed \/ EndedInFailure(task[t])]
    /\ UNCHANGED <<auth, sources, articles, feed, task, overlapped, calls, unit>>

\* `await NewsService.getUserArticles()` after the loop.
RefreshReload(t) ==
    /\ ui.pc = "refresh_loop"
    /\ ui.queue = <<>>
    /\ AwaitCall(t, "getUserArticles", [category |-> "all"], "articles_auth")
    /\ ui' = [ui EXCEPT !.pc = "reload_await", !.awaits[t] = "handleRefresh"]

\* The reload has settled: setArticles and the toast "Refreshed", or the
\* catch; then the finally.
RefreshReloaded(t) ==
    /\ ui.pc = "reload_await"
    /\ Settled(t, "handleRefresh")
    /\ ui' = IF task[t].status = "raised"
             THEN [RefreshCaught EXCEPT !.awaits[t] = NotAwaited]
             ELSE [ui EXCEPT !.pc = "idle", !.handler = "handleRefresh",
                             !.articles = task[t].result,
                             !.toast = "Refreshed", !.isRefreshing = FALSE,
                             !.awaits[t] = NotAwaited,
                             !.failed = ui.ingestFailed \/ EndedInFailure(task[t])]
    /\ UNCHANGED <<auth, sources, articles, feed, task, overlapped, calls, unit>>

\* setSearchQuery(query) and the search effect: performSearch up to its
\* await for a query that is not blank, setSearchResults([]) for a blank one.
TypeQuery(t, query) ==
    /\ query # ui.searchQuery
    /\ IF Trim(query) # ""
       THEN /\ AwaitCall(t, "searchArticles", [query |-> query], "search_auth")
            /\ ui' = [ui EXCEPT !.searchQuery = query, !.isSearching = TRUE,
                                !.awaits[t] = "performSearch"]
       ELSE /\ ui' = [ui EXCEPT !.searchQuery = query, !.searchResults = {},
                                !.shownFor = ""]
            /\ UNCHANGED <<auth, sources, articles, feed, task, overlapped, calls, unit>>

\* The search has settled: setSearchResults(results), or the catch with its
\* toast; then the finally.
SearchSettled(t) ==
    /\ Settled(t, "performSearch")
    /\ ui' = IF task[t].status = "raised"
             THEN [ui EXCEPT !.handler = "performSearch", !.toast = "Search Error",
                             !.failed = TRUE, !.isSearching = FALSE,
                             !.awaits[t] = NotAwaited]
             ELSE [ui EXCEPT !.handler = "performSearch", !.toast = NoToast,
                             !.searchResults = task[t].result,
                             !.shownFor = task[t].arg.query,
                             !.isSearching = FALSE, !.awaits[t] = NotAwaited,
                             !.failed = EndedInFailure(task[t])]
    /\ UNCHANGED <<auth, sources, articles, feed, task, overlapped, calls, unit>>

\* The steps the service takes for the calls of handleRefresh and
\* performSearch.
ServiceStep(t) ==
    \/ RefreshAuth(t) \/ RefreshLoadSource(t) \/ RefreshFetch(t)
    \/ RefreshCheck(t) \/ RefreshCreate(t)
    \/ GetUserArticlesAuth(t) \/ GetUserArticlesList(t)
    \/ SearchAuth(t) \/ SearchList(t)

\* handleRefresh and performSearch.
HandlerStep(t) ==
    \/ HandleRefresh \/ RefreshNextSource(t) \/ RefreshSourceSettled(t)
    \/ RefreshReload(t) \/ RefreshReloaded(t)
    \/ \E query \in TypedQueries : TypeQuery(t, query)
    \/ SearchSettled(t)

NextUI == \E t \in Tasks : HandlerStep(t) \/ ServiceStep(t)

SpecUI == InitUI /\ [][NextUI]_vars

(***************************************************************************)
(* The App component with articles loaded: handleBookmark, performSearch   *)
(***************************************************************************)

\* The article the first ingestion of source 1 has stored from FeedOne.
StoredArticle ==
    NewArticle(1, "u1", CHOOSE s \in StoredSources : s.id = 1, ParsedFeeds[FeedOne][1])

\* u1 is signed in and loadUserData has set the sources and the articles
\* of the store.
InitLoaded ==
    /\ auth = "u1"
    /\ sources = StoredSources
    /\ articles = {StoredArticle}
    /\ feed = [u \in FeedUrls |-> FeedOne]
    /\ task = [t \in Tasks |-> IdleTask]
    /\ overlapped = FALSE
    /\ calls = 0
    /\ unit = NoUnit
    /\ ui = [MountedUI("u1", <<1, 2>>) EXCEPT !.articles = {ToArticle(StoredArticle)}]

\* The articles on display: the list and the search results.
Displayed == ui.articles \cup ui.searchResults

\* `prev.map(article => article.id === articleId ? {...article,
\* isBookmarked: !article.isBookmarked} : article)`
FlipBookmark(shown, articleId) ==
    {IF a.id = articleId THEN [a EXCEPT !.isBookmarked = ~a.isBookmarked] ELSE a :
        a \in shown}

\* handleBookmark(articleId) up to its await, for an article on display.
HandleBookmark(t, articleId) ==
    /\ ui.pc # "unmounted"
    /\ articleId \in {a.id : a \in Displayed}
    /\ AwaitCall(t, "toggleBookmark", [id |-> articleId], "toggle_auth")
    /\ ui' = [ui EXCEPT !.awaits[t] = "handleBookmark",
                        !.withResults[t] = ui.searchResults # {}]

\* toggleBookmark has settled: the two local flips, or the catch with its
\* toast.
BookmarkSettled(t) ==
    /\ Settled(t, "handleBookmark")
    /\ ui' = IF task[t].status = "raised"
             THEN [ui EXCEPT !.handler = "handleBookmark", !.toast = "Error",
                             !.failed = TRUE, !.awaits[t] = NotAwaited]
             ELSE [ui EXCEPT !.handler = "handleBookmark", !.toast = NoToast,
                             !.articles = FlipBookmark(ui.articles, task[t].arg.id),
                             !.searchResults =
                                 IF ui.withResults[t]
                                 THEN FlipBookmark(ui.searchResults, task[t].arg.id)
                                 ELSE ui.searchResults,
                             !.failed = EndedInFailure(task[t]),
                             !.awaits[t] = NotAwaited]
    /\ UNCHANGED <<auth, sources, articles, feed, task, overlapped, calls, unit>>

\* handleBookmark and performSearch, and the steps the service takes for
\* their calls.
LoadedStep(t) ==
    \/ \E articleId \in 1..MaxCalls : HandleBookmark(t, articleId)
    \/ BookmarkSettled(t)
    \/ \E query \in TypedQueries : TypeQuery(t, query)
    \/ SearchSettled(t)
    \/ ToggleAuth(t) \/ ToggleList(t) \/ ToggleUpdate(t)
    \/ SearchAuth(t) \/ SearchList(t)

NextLoaded == \E t \in Tasks : LoadedStep(t)

SpecLoaded == InitLoaded /\ [][NextLoaded]_vars

(***************************************************************************)
(* generateShareText taken alone                                           *)
(***************************************************************************)

\* The character limit of a tweet.
TwitterLimit == 280

\* String.prototype.substring(0, end): an end below 0 counts as 0, one
\* beyond the length as the length.
SubstringTo(s, end) ==
    IF end <= 0 THEN ""
    ELSE IF end >= Len(s) THEN s
    ELSE SubSeq(s, 1, end)

\* SocialShareService.generateShareText(article, platform, customMessage),
\* for the platforms twitter, linkedin, facebook and those of the default
\* case; customMessage "" stands for one not given.
generateShareText(article, platform, customMessage) ==
    LET baseMessage == IF customMessage # "" THEN customMessage ELSE article.title
        url         == article.url
        lower       == ToLowerCase(platform)
    IN  CASE lower = "twitter" ->
               LET maxLength == TwitterLimit - Len(url) - 3
                   truncatedMessage ==
                       IF Len(baseMessage) > maxLength
                       THEN SubstringTo(baseMessage, maxLength - 3) \o "..."
                       ELSE baseMessage
               IN  truncatedMessage \o " " \o url
          [] lower = "linkedin" ->
               IF customMessage # ""
               THEN customMessage \o "\n\n" \o article.title \o "\n" \o url
               ELSE "Interesting read: " \o article.title \o "\n\n"
                        \o article.description \o "\n\n" \o url
          [] lower = "facebook" ->
               IF customMessage # ""
               THEN customMessage \o "\n\n" \o url
               ELSE article.title \o "\n\n" \o url
          [] OTHER -> baseMessage \o "\n\n" \o url

\* n copies of s.
RECURSIVE Repeated(_, _)
Repeated(s, n) == IF n <= 0 THEN "" ELSE s \o Repeated(s, n - 1)

\* A text of n characters.
TextOfLength(n) == SubstringTo(Repeated("0123456789", n \div 10 + 1), n)

\* An absolute URL of n characters, n at least 13.
UrlOfLength(n) == "https://x.co/" \o SubstringTo(Repeated("abcdefghij", n \div 10), n - 13)

\* The lengths of the titles, of the messages of the user (0: none given)
\* and of the URLs the function is called on, and the platforms.
TitleLengths   == {11, 100, 300}
MessageLengths == {0, 1, 250, 264, 265, 280}
UrlLengths     == {13, 20, 274, 275, 277, 280}
Platforms      == {"twitter", "Twitter", "linkedin", "facebook", "email"}

\* generateShareText is about to be called.
InitShare ==
    /\ auth = NoUser
    /\ sources = {}
    /\ articles = {}
    /\ feed = [u \in FeedUrls |-> FeedOne]
    /\ task = [t \in Tasks |-> IdleTask]
    /\ overlapped = FALSE
    /\ calls = 0
    /\ ui = NoUI
    /\ \E t \in TitleLengths, m \in MessageLengths, u \in UrlLengths, platform \in Platforms :
          unit = [fn |-> "generateShareText",
                  article |-> [title |-> TextOfLength(t), description |-> "About it.",
                               url |-> UrlOfLength(u)],
                  platform |-> platform, customMessage |-> TextOfLength(m),
                  returned |-> FALSE, value |-> ""]

\* The call of generateShareText.
Share ==
    /\ unit.fn = "generateShareText"
    /\ ~unit.returned
    /\ unit' = [unit EXCEPT !.returned = TRUE,
                            !.value = generateShareText(unit.article, unit.platform,
                                                        unit.customMessage)]
    /\ UNCHANGED <<auth, sources, articles, feed, task, overlapped, calls, ui>>

NextShare == Share

SpecShare == InitShare /\ [][NextShare]_vars

(***************************************************************************)
(* Deduplication                                                           *)
(***************************************************************************)

\* Two records of one user with one fingerprint.
Duplicate(a, b) ==
    a # b /\ a.userId = b.userId /\ a.contentHash = b.contentHash

\* C1: whatever non-overlapping calls of addNewsSource and
\* refreshSourceArticles have run, over any feeds and sources, no two
\* articles in the store have the same userId and the same contentHash.
NoDuplicateFingerprint ==
    \A a, b \in articles : ~Duplicate(a, b)

\* C1, the case: three calls have run, the last a refresh that ran to its
\* end over a fetched feed, and a user with two sources holds two articles.
SeveralIngestsDone ==
    /\ calls >= 3
    /\ task[Main].pc = "done" /\ task[Main].op = "refreshSourceArticles"
    /\ task[Main].exit = "completed" /\ task[Main].content \in FeedContents
    /\ \E u \in Users :
          /\ Cardinality({s \in sources : s.userId = u}) >= 2
          /\ Cardinality({a \in articles : a.userId = u}) >= 2

\* Every candidate of the document has a record of the user in the store.
IngestedIn(store, userId, content) ==
    \A i \in 1..Len(ParsedFeeds[content]) :
        \E a \in store : /\ a.userId = userId
                         /\ a.contentHash = CandidateHash(ParsedFeeds[content][i])

InLoop(t) == task[t].pc \in {"refresh_check", "refresh_create"}

\* C2: a refresh that runs to its end leaves every candidate of the feed in
\* the store, and a refresh of a feed whose candidates are all in the store
\* creates no article: run again on an unchanged feed, it adds nothing.
IdempotentIngest ==
    [][\A t \in Tasks :
          /\ (InLoop(t) /\ task'[t].pc = "done" /\ task'[t].exit = "completed")
                => IngestedIn(articles', task[t].user, task[t].content)
          /\ (InLoop(t) /\ IngestedIn(articles, task[t].user, task[t].content))
                => articles' = articles]_vars

\* C2, the case: a refresh of a source whose feed holds one article has run
\* to its end without a write, and the store holds exactly one article of
\* that source.
SecondRunAddsNothing ==
    /\ task[Main].pc = "done" /\ task[Main].op = "refreshSourceArticles"
    /\ task[Main].exit = "completed" /\ task[Main].content = FeedOne
    /\ ~task[Main].wrote
    /\ Cardinality({a \in articles : a.sourceId = task[Main].source.id}) = 1

SameText(a, b) == a.title = b.title /\ a.description = b.description

\* C3: in one call the candidates are taken in parse order, the existence
\* query of candidate k made only when every earlier candidate has its
\* record in the store; so no candidate is created whose title and
\* description an earlier candidate of the batch has.
BatchInOrder ==
    \A t \in Tasks :
        InLoop(t) =>
            \A j \in 1..(task[t].k - 1) :
                /\ \E a \in articles :
                      /\ a.userId = task[t].user
                      /\ SameText(a, task[t].newArticles[j])
                /\ task[t].pc = "refresh_create"
                      => ~SameText(task[t].newArticles[j], task[t].newArticles[task[t].k])

\* C3, the case: a refresh of the feed with two candidates of one title and
\* description has run to its end, and the store holds one record of them.
TwinStoredOnce ==
    /\ task[Main].pc = "done" /\ task[Main].exit = "completed"
    /\ task[Main].content = FeedTwin /\ task[Main].wrote
    /\ Cardinality({a \in articles : SameText(a, ParsedFeeds[FeedTwin][2])}) = 1

\* C4: two records of one user with one fingerprint come to be only when
\* two refreshes have been in flight at once.
DuplicateOnlyByOverlap ==
    (\E a, b \in articles : Duplicate(a, b)) => overlapped

\* C4, the case: two refreshes of one source by one user have interleaved
\* and the store holds two records of that source with one fingerprint.
DuplicateReached ==
    \E a, b \in articles : Duplicate(a, b) /\ a.sourceId = b.sourceId

(***************************************************************************)
(* Failures and the signed-out session                                     *)
(***************************************************************************)

\* The places refreshSourceArticles returns at.
RefreshExits == {"caught", "unauthenticated", "no-source", "no-feed-url", "completed"}

\* C5: refreshSourceArticles never raises: called by the client or by
\* addNewsSource, at whatever step it ends (the auth lookup, the source
\* lookup, the fetch, an existence query or a create failing, or the loop
\* done), it returns.
RefreshNeverRaises ==
    \A t \in Tasks :
        (task[t].op = "refreshSourceArticles" \/ task[t].exit \in RefreshExits)
            => task[t].status # "raised"

\* C5, the case: a refresh whose create failed has returned.
RefreshFailedQuietly ==
    /\ task[Main].op = "refreshSourceArticles" /\ task[Main].pc = "done"
    /\ task[Main].exit = "caught" /\ task[Main].wrote
    /\ task[Main].status = "returned"

\* C6: addNewsSource raises when discovery finds no feed, having issued no
\* write, and neither a source record is built for a feed that was not found
\* nor is one in the store.
NoFeedNoSource ==
    /\ \A t \in Tasks :
          /\ task[t].exit = "feed-not-found"
                => task[t].status = "raised" /\ ~task[t].wrote
          /\ task[t].pc = "add_create" => task[t].source.rssUrl # NotFound
    /\ \A s \in sources : s.rssUrl # NotFound

\* C6, the case: addNewsSource has raised for a site no feed was found for,
\* and the stores are as they were at the start.
FeedNotFoundRaised ==
    /\ task[Main].op = "addNewsSource" /\ task[Main].pc = "done"
    /\ task[Main].exit = "feed-not-found" /\ task[Main].status = "raised"
    /\ sources = {} /\ articles = {}

\* C7: a refresh that resolved no user, found no source of the user with
\* that id, or found one with no feed URL, fetches nothing, writes nothing
\* and returns.
RefreshNoOp ==
    \A t \in Tasks :
        (/\ task[t].op = "refreshSourceArticles"
         /\ \/ task[t].user = NoUser
            \/ task[t].source = NoSource
            \/ task[t].source.rssUrl = "")
            => /\ ~task[t].fetched /\ ~task[t].wrote
               /\ task[t].status # "raised"
               /\ task[t].pc \notin {"refresh_fetch", "refresh_check", "refresh_create"}

\* C7, the case: a refresh of the source without a feed URL has returned,
\* nothing fetched and the article store empty as before.
NoFeedUrlNoOp ==
    /\ task[Main].op = "refreshSourceArticles" /\ task[Main].pc = "done"
    /\ task[Main].exit = "no-feed-url" /\ task[Main].status = "returned"
    /\ ~task[Main].fetched /\ articles = {}

\* Task t is at the auth lookup a call of the client starts with.
AtEntry(t) ==
    /\ task[t].pc \in {"add_auth", "sources_auth", "articles_auth", "refresh_auth",
                       "toggle_auth", "mark_auth", "search_auth"}
    /\ task[t].pc = "refresh_auth" => task[t].op = "refreshSourceArticles"

\* Task t takes the step in which blink.auth.me() resolves to null.
ResolvesNoUser(t) ==
    /\ AtEntry(t) /\ auth = NoUser
    /\ task'[t] # task[t]
    /\ task'[t].exit \notin {"caught", "rethrown"}

\* The call of t has ended with no write and no fetch, the stores unchanged.
EndsUntouched(t) ==
    /\ task'[t].pc = "done"
    /\ ~task'[t].wrote /\ ~task'[t].fetched /\ task'[t].result = {}
    /\ sources' = sources /\ articles' = articles

\* C8 as stated: signed out, every operation ends at once with no write and
\* no fetch, and returns.
SilentWhenSignedOut ==
    [][\A t \in Tasks :
          ResolvesNoUser(t) => EndsUntouched(t) /\ task'[t].status = "returned"]_vars

\* C8, amended: signed out, every operation ends at once with no write and
\* no fetch; addNewsSource raises, every other operation returns.
QuietWhenSignedOut ==
    [][\A t \in Tasks :
          ResolvesNoUser(t) =>
              /\ EndsUntouched(t)
              /\ task'[t].status =
                    IF task[t].op = "addNewsSource" THEN "raised" ELSE "returned"]_vars

\* C8, the case: addNewsSource, called signed out, has raised.
SignedOutAddRaised ==
    /\ task[Main].op = "addNewsSource" /\ task[Main].pc = "done"
    /\ task[Main].exit = "not-authenticated" /\ task[Main].status = "raised"
    /\ ~task[Main].wrote /\ ~task[Main].fetched

ListOps == {"getUserSources", "getUserArticles", "searchArticles"}

\* C9: a call that raises is a call of addNewsSource; the lists and the
\* search return the empty list when a backend call fails, and
\* toggleBookmark and markAsRead return.
OnlyAddRaises ==
    \A t \in Tasks :
        /\ task[t].status = "raised" => task[t].op = "addNewsSource"
        /\ (task[t].exit = "caught" /\ task[t].op \in ListOps)
              => task[t].status = "returned" /\ task[t].result = {}

\* C9, the case: getUserArticles, the list query failing, has returned the
\* empty list to a user who has articles.
ListFailedEmpty ==
    /\ task[Main].op = "getUserArticles" /\ task[Main].pc = "done"
    /\ task[Main].exit = "caught" /\ task[Main].status = "returned"
    /\ task[Main].result = {}
    /\ \E a \in articles : a.userId = task[Main].user

\* C10 as stated: a record of the article store changes only in a step of
\* a call run by its owner, and a list holds only records of the user it
\* was made for.
UserIsolation ==
    [][/\ \A a \in articles :
            a \notin articles' =>
                \E t \in Tasks : task[t].user = a.userId /\ task'[t] # task[t]
       /\ \A t \in Tasks :
            task'[t].op \in ListOps =>
                \A r \in task'[t].result : r.userId = task'[t].user]_vars

(***************************************************************************)
(* Feed discovery                                                          *)
(***************************************************************************)

\* discoverRSSFeed has returned.
Discovered11 == unit.fn = "discoverRSSFeed" /\ unit.value # Pending

\* The well-known paths in the order the specification gives them, resolved
\* against the site.
ProbeOrder(websiteUrl) ==
    [i \in 1..5 |-> NewURL(<<"/rss", "/feed", "/rss.xml", "/feed.xml", "/atom.xml">>[i],
                           websiteUrl)]

\* The places in ProbeOrder that can be fetched.
Hits == {i \in 1..5 : ProbeOrder(unit.websiteUrl)[i] \in unit.reachable}
FirstHit == CHOOSE i \in Hits : \A j \in Hits : i <= j

\* The page was scraped and none of its links passes for a feed link.
NoFeedLink == unit.scraped # ScrapeError /\ FindRssLink(unit.scraped) = 0

\* C11: with no feed-like link on the page, discoverRSSFeed probes /rss,
\* /feed, /rss.xml, /feed.xml, /atom.xml in that order, returns the first
\* URL that can be fetched without probing a later one, and returns null
\* only after all five probes have failed.
ProbesInOrder ==
    (Discovered11 /\ NoFeedLink) =>
        IF Hits = {}
        THEN /\ unit.value.url = NotFound
             /\ unit.value.probed = ProbeOrder(unit.websiteUrl)
        ELSE /\ unit.value.url = ProbeOrder(unit.websiteUrl)[FirstHit]
             /\ unit.value.probed = SubSeq(ProbeOrder(unit.websiteUrl), 1, FirstHit)

\* C11, witness: the third path was the first to be fetched; the fifth could
\* have been fetched too and was not asked for.
ThirdProbeReturned ==
    /\ Discovered11 /\ NoFeedLink
    /\ Hits = {3, 5}
    /\ Len(unit.value.probed) = 3
    /\ unit.value.url = ProbeOrder(unit.websiteUrl)[3]

\* The scrape of the site's page threw.
ScrapeFailed == unit.scraped = ScrapeError

\* C12: a failure of one candidate, the scrape of the site's page included,
\* means `try the next candidate`: after a failed scrape discovery goes on
\* with the probes, and it returns not-found only once the scrape and all
\* five probes are exhausted.
ScrapeFailureTriesProbes ==
    (Discovered11 /\ ScrapeFailed) =>
        IF Hits = {}
        THEN /\ unit.value.url = NotFound
             /\ unit.value.probed = ProbeOrder(unit.websiteUrl)
        ELSE /\ unit.value.url = ProbeOrder(unit.websiteUrl)[FirstHit]
             /\ unit.value.probed = SubSeq(ProbeOrder(unit.websiteUrl), 1, FirstHit)

\* A link whose href or visible text contains, in any case, one of rss,
\* feed, atom.
LooksLikeFeed(link) ==
    \E word \in {"rss", "feed", "atom"} :
        \/ Includes(ToLowerCase(link.href), word)
        \/ Includes(ToLowerCase(link.text), word)

\* The first link of the page that looks like a feed link.
FirstFeedLike ==
    CHOOSE i \in 1..Len(unit.scraped) :
        /\ LooksLikeFeed(unit.scraped[i])
        /\ \A j \in 1..(i - 1) : ~LooksLikeFeed(unit.scraped[j])

\* C13: discoverRSSFeed returns, without a probe, the absolute URL of the
\* first scraped link whose href or visible text contains rss, feed or atom
\* in any case, and goes on to the probes only when no link matches in
\* either field.
FirstFeedLinkReturned ==
    (Discovered11 /\ ~ScrapeFailed) =>
        IF \E i \in 1..Len(unit.scraped) : LooksLikeFeed(unit.scraped[i])
        THEN /\ unit.value.url = NewURL(unit.scraped[FirstFeedLike].href, unit.websiteUrl)
             /\ unit.value.probed = <<>>
        ELSE unit.value.probed # <<>>

(***************************************************************************)
(* The parser                                                              *)
(***************************************************************************)

\* parseRSSContent has returned.
Parsed == unit.fn = "parseRSSContent" /\ unit.returned

\* C14: parseRSSContent returns at most 20 candidates, and each of them has
\* a non-empty title and a url that starts with "http".
AtMostTwentyWellFormed ==
    Parsed =>
        /\ Len(unit.value) <= 20
        /\ \A k \in 1..Len(unit.value) :
              /\ unit.value[k].title # ""
              /\ StartsWith(unit.value[k].url, "http")

\* C14, witness: a feed of more than 20 complete items gave 20 candidates.
LongFeedCut ==
    /\ Parsed
    /\ unit.content = FeedOfItems(ManyItems)
    /\ Len(unit.value) = 20

\* C15: a title line whose stripped text is "RSS", empty, or shorter than
\* 11 characters never sets the title: every candidate returned has a title
\* of more than 10 characters that is not "RSS", also when such a line
\* stands between the title line and the link line of its item.
ShortTitlesIgnored ==
    Parsed =>
        \A k \in 1..Len(unit.value) :
            /\ Len(unit.value[k].title) > 10
            /\ unit.value[k].title # "RSS"

\* C15, witness: the title line of 10 characters after the item's title
\* line left the title as it was.
TitleKeptOverShortOne ==
    /\ Parsed
    /\ unit.content =
          "<title>Example Article Title</title>\n<title>Ten chars!</title>\n<link>http://x.com/a"
    /\ Len(unit.value) = 1
    /\ unit.value[1].title = "Example Article Title"

\* The one candidate of the scenario.
ExampleCandidate(a) ==
    /\ a.title = "Example Article Title"
    /\ a.url = "http://x.com/a"
    /\ a.description = ""

\* The feed of the scenario, on one line, and the same title and link with
\* the link on a line of its own and left open.
ScenarioFeed == "<title>Example Article Title</title><link>http://x.com/a</link>"
OpenLinkFeed == "<title>Example Article Title</title>\n<link>http://x.com/a"

\* C16, as stated: parsing the feed
\* <title>Example Article Title</title><link>http://x.com/a</link> and
\* nothing else gives exactly one candidate, with that title, that URL and
\* the description "".
ScenarioGivesOneCandidate ==
    (Parsed /\ unit.content = ScenarioFeed) =>
        /\ Len(unit.value) = 1
        /\ ExampleCandidate(unit.value[1])

\* C16, amended: the feed whose lines are <title>Example Article
\* Title</title> and <link>http://x.com/a (the link on its own line, with no
\* closing tag) gives exactly one candidate, with that title, that URL and
\* the description ""; the feed of the scenario, whose link is closed on the
\* line it opens on, gives no candidate.
OpenLinkGivesOneCandidate ==
    /\ (Parsed /\ unit.content = OpenLinkFeed) =>
          /\ Len(unit.value) = 1
          /\ ExampleCandidate(unit.value[1])
    /\ (Parsed /\ unit.content = ScenarioFeed) => unit.value = <<>>

\* C16, witness: the two-line feed has been parsed into its one candidate.
OpenLinkFeedParsed ==
    /\ Parsed
    /\ unit.content = OpenLinkFeed
    /\ Len(unit.value) = 1

(***************************************************************************)
(* The fingerprint                                                         *)
(***************************************************************************)

\* generateContentHash has returned at least once.
Hashed == unit.fn = "generateContentHash" /\ unit.returned > 0

Times31Plus(h, c) ==
    LET r    == h % 65536
        q    == (h - r) \div 65536
        low  == 31 * r + c
        high == (31 * q + (low \div 65536)) % 65536
    IN  (IF high >= 32768 THEN high - 65536 ELSE high) * 65536 + (low % 65536)

\* The reference hash of the first k characters: h(0) = 0,
\* h(i+1) = int32(h(i) * 31 + code of character i+1).
RECURSIVE ReferenceHash(_, _)
ReferenceHash(content, k) ==
    IF k = 0 THEN 0
    ELSE Times31Plus(ReferenceHash(content, k - 1), CharCode(CharAt(content, k)))

\* The decimal form of an integer.
RECURSIVE Decimal(_)
Decimal(v) ==
    IF v = -2147483647 - 1 THEN "-2147483648"
    ELSE IF v < 0 THEN "-" \o Decimal(0 - v)
    ELSE IF v < 10 THEN Digit(v)
    ELSE Decimal(v \div 10) \o Digit(v % 10)

\* The reference hash overflowed 31 bits on the way.
RECURSIVE Overflowed(_, _)
Overflowed(content, k) ==
    /\ k > 0
    /\ \/ Overflowed(content, k - 1)
       \/ LET h == ReferenceHash(content, k - 1)
          IN  h < 0 \/ h > (2147483647 - 126) \div 31

\* C18: generateContentHash(content) is the decimal string of the reference
\* hash h(0) = 0, h(i+1) = (h(i) * 31 + charCode(i)) reduced to a signed
\* 32-bit integer at each step, also when the value overflows or is negative.
HashIsReference ==
    Hashed => unit.value = Decimal(ReferenceHash(unit.content, Len(unit.content)))

\* C18, witness: a content whose hash overflowed and came out negative.
NegativeHashReturned ==
    /\ Hashed
    /\ Overflowed(unit.content, Len(unit.content))
    /\ ReferenceHash(unit.content, Len(unit.content)) < 0
    /\ CharAt(unit.value, 1) = "-"

(***************************************************************************)
(* The fields of an ingested article                                       *)
(***************************************************************************)

\* C19: every article an ingest persists has the category of its Source
\* (not the candidate's own "general"), the id of that Source as sourceId
\* and the user of the call as userId, and is stored unbookmarked and
\* unread.
IngestedFieldsFromSource ==
    [][\A a \in articles' \ articles :
          \E t \in Tasks :
            /\ task[t].pc = "refresh_create"
            /\ a.category = task[t].source.category
            /\ a.sourceId = task[t].source.id
            /\ a.userId = task[t].user
            /\ a.isBookmarked = "0"
            /\ a.isRead = "0"]_vars

\* C19, witness: an article of a source of category technology is stored
\* under that category, unbookmarked and unread, for the user who ingested.
TechnologyArticleStored ==
    \E a \in articles :
        \E s \in sources :
            /\ s.id = a.sourceId
            /\ s.category = "technology"
            /\ a.category = "technology"
            /\ a.userId = s.userId
            /\ a.isBookmarked = "0"
            /\ a.isRead = "0"

(***************************************************************************)
(* What the user is shown                                                  *)
(***************************************************************************)

\* The handler has run to its end.
Ended(handler) == ui.pc = "idle" /\ ui.handler = handler

\* C20: a refresh in which the ingestion of some source failed ends with the
\* toast "Refresh Error", and a search whose backend call failed ends with
\* an empty result set and the toast "Search Error".
FailureNotified ==
    /\ (Ended("handleRefresh") /\ ui.failed) => ui.toast = "Refresh Error"
    /\ (Ended("performSearch") /\ ui.failed) =>
          /\ ui.searchResults = {}
          /\ ui.toast = "Search Error"

(***************************************************************************)
(* The life of the records                                                 *)
(***************************************************************************)

\* Some task is at the step `pc` of its call.
SomeTaskAt(pc) == \E t \in Tasks : task[t].pc = pc

\* b is the record a has become: the same article, with the fields that
\* never change.
SameArticle(a, b) ==
    /\ b.id = a.id
    /\ b.userId = a.userId
    /\ b.sourceId = a.sourceId
    /\ b.category = a.category
    /\ b.contentHash = a.contentHash
    /\ b.title = a.title
    /\ b.description = a.description
    /\ b.url = a.url
    /\ b.publishedAt = a.publishedAt

\* C21: the set of persisted articles only grows: an article is created by
\* the create step of refreshSourceArticles only (called directly or by
\* addNewsSource), none is deleted, userId, sourceId, category and
\* contentHash of an article never change, and only isBookmarked (by
\* toggleBookmark) and isRead (by markAsRead) are ever changed.
ArticlesOnlyGrow ==
    [][/\ \A a \in articles : \E b \in articles' : SameArticle(a, b)
       /\ (\E b \in articles' : \A a \in articles : a.id # b.id) =>
              \E t \in Tasks : /\ task[t].pc = "refresh_create"
                               /\ task[t].op \in {"refreshSourceArticles", "addNewsSource"}
       /\ \A a \in articles, b \in articles' :
             b.id = a.id =>
                /\ b.isBookmarked # a.isBookmarked => SomeTaskAt("toggle_update")
                /\ b.isRead # a.isRead => SomeTaskAt("mark_update")]_vars

\* C21, witness: an ingested article has been bookmarked and marked as read.
BookmarkedAndRead ==
    \E a \in articles : a.isBookmarked = "1" /\ a.isRead = "1"

\* C22: every persisted Source has a resolved feed URL: a Source is created
\* by addNewsSource only, after discovery has returned a URL for its site,
\* and no operation changes or removes a Source afterwards.
SourceFeedUrlSet ==
    [][/\ \A s \in sources' : s.rssUrl # NotFound /\ HasScheme(s.rssUrl)
       /\ sources \subseteq sources'
       /\ sources' # sources =>
             \E t \in Tasks : /\ task[t].pc = "add_create"
                              /\ task[t].op = "addNewsSource"
                              /\ task[t].fetched
                              /\ sources' = sources \cup {task'[t].source}
                              /\ task'[t].source.rssUrl = task[t].source.rssUrl]_vars

\* C22, witness: a Source stands in the store with the feed URL discovery
\* found, after a later call has ended.
SourceKeptItsFeedUrl ==
    /\ \E s \in sources : s.rssUrl = FeedUrl
    /\ calls > 1
    /\ task[Main].pc = "done"

(***************************************************************************)
(* A failure in the middle of an ingest                                    *)
(***************************************************************************)

\* Task t goes on from candidate k: to the query for candidate k + 1, or
\* to the normal end of the call after the last candidate.
GoesOn(t, k) ==
    \/ task'[t].pc = "refresh_check" /\ task'[t].k = k + 1
    \/ /\ k = Len(task[t].newArticles)
       /\ task'[t].pc = "done" /\ task'[t].exit = "completed"

\* The call of task t ends here in its catch, returning normally.
StopsHere(t) ==
    /\ task'[t].pc = "done"
    /\ task'[t].status = "returned"
    /\ task'[t].exit = "caught"

\* C23: when the existence query or the create of candidate N fails the
\* call stops there and returns normally: the loop goes on to candidate
\* N + 1 only from a query that found candidate N in the store or from a
\* create that stored it, what was stored before stays, and a call that has
\* ended writes nothing more.
StopsAtFailedCandidate ==
    [][\A t \in Tasks :
          /\ (task[t].pc = "refresh_check" /\ task'[t] # task[t]) =>
                LET k     == task[t].k
                    found == ArticlesByHash(task[t].user, CandidateHash(task[t].newArticles[k]))
                IN  /\ articles' = articles
                    /\ \/ found = {} /\ task'[t].pc = "refresh_create" /\ task'[t].k = k
                       \/ found # {} /\ GoesOn(t, k)
                       \/ StopsHere(t)
          /\ (task[t].pc = "refresh_create" /\ task'[t] # task[t]) =>
                \/ /\ articles \subseteq articles'
                   /\ Cardinality(articles') = Cardinality(articles) + 1
                   /\ GoesOn(t, task[t].k)
                \/ articles' = articles /\ StopsHere(t)
          /\ (task[t].pc = "done" /\ task'[t].pc = "done") => articles' = articles]_vars

\* C23, witness: of the two candidates of a feed the first is stored, the
\* second failed, and the call has returned normally.
SecondCandidateFailed ==
    /\ task[Main].pc = "done"
    /\ task[Main].status = "returned"
    /\ task[Main].exit = "caught"
    /\ task[Main].content = FeedPair
    /\ Cardinality(articles) = 1
    /\ \E a \in articles : a.url = "http://x.com/d"

\* The handler handleRefresh awaits the reload of the articles on task t.
Reloading(t) == ui.awaits[t] = "handleRefresh" /\ task[t].op = "getUserArticles"

\* C24: handleRefresh ingests the sources strictly one at a time: at most
\* one ingestion is in flight, it is that of the first source not yet done
\* (the sources before it have settled, with all their writes; those after
\* it have not begun), and the reload of the articles is in flight only
\* when every source is done and no ingestion is in flight.
SourcesOneAtATime ==
    /\ Cardinality({t \in Tasks : InRefresh(t)}) <= 1
    /\ \A t \in Tasks :
          InRefresh(t) =>
             /\ ui.pc = "refresh_await"
             /\ ui.queue # <<>>
             /\ task[t].arg.id = Head(ui.queue)
    /\ \A t \in Tasks :
          Reloading(t) =>
             /\ ui.queue = <<>>
             /\ \A o \in Tasks : ~InRefresh(o)

\* C24, witness: the reload is in flight after the ingestion of both
\* sources, with what the ingestion wrote in the store.
ReloadAfterIngestion ==
    /\ \E t \in Tasks : Reloading(t) /\ task[t].pc = "articles_list"
    /\ articles # {}
    /\ calls = 3

(***************************************************************************)
(* addNewsSource and its first ingestion                                   *)
(***************************************************************************)

\* Task t runs or ran addNewsSource, and discovery gave it a feed URL.
AddDiscovered(t) == task[t].op = "addNewsSource" /\ task[t].source # NoSource

\* C25, as stated: addNewsSource persists the Source before the initial
\* ingestion starts, and a successful discovery always ends with the Source
\* persisted and returned to the caller.
DiscoveryEndsWithSource ==
    \A t \in Tasks :
        /\ (AddDiscovered(t) /\ InRefresh(t)) => task[t].source \in sources
        /\ (AddDiscovered(t) /\ task[t].pc = "done") =>
              /\ task[t].status = "returned"
              /\ task[t].source \in sources
              /\ task[t].result = {ToSource(task[t].source)}

\* C25, amended: addNewsSource persists the Source before the initial
\* ingestion starts, and a successful discovery followed by a successful
\* create of the Source record always ends with the Source persisted and
\* returned to the caller, even when the initial ingestion fails or stores
\* no article; when the create fails, the Source is not persisted and the
\* error is thrown on.
CreatedSourceReturned ==
    \A t \in Tasks :
        /\ (AddDiscovered(t) /\ InRefresh(t)) => task[t].source \in sources
        /\ (AddDiscovered(t) /\ task[t].pc = "done") =>
              IF task[t].source \in sources
              THEN /\ task[t].status = "returned"
                   /\ task[t].result = {ToSource(task[t].source)}
              ELSE task[t].status = "raised"

\* C25, witness: addNewsSource has returned the Source it persisted after an
\* initial ingestion that failed and stored nothing.
SourceReturnedAfterFailedIngestion ==
    /\ AddDiscovered(Main)
    /\ task[Main].pc = "done"
    /\ task[Main].status = "returned"
    /\ task[Main].exit = "caught"
    /\ task[Main].source \in sources
    /\ articles = {}

(***************************************************************************)
(* toggleBookmark                                                          *)
(***************************************************************************)

\* The other value of a flag.
Flipped(flag) == IF flag = "1" THEN "0" ELSE "1"

\* The store with isBookmarked of the article `id` flipped and nothing else
\* changed.
BookmarkFlipped(id) ==
    {IF a.id = id THEN [a EXCEPT !.isBookmarked = Flipped(a.isBookmarked)] ELSE a :
        a \in articles}

\* C26: toggleBookmark(articleId) flips isBookmarked of exactly that article
\* when it exists and is owned by the current user, and changes nothing
\* otherwise: its one write, when it succeeds, takes the stored flag of the
\* caller's own article to its other value (so that two toggles in sequence
\* give back the store they began with) and leaves every other article and
\* field as it was; every other step of the call leaves the store alone.
ToggleFlipsExactly ==
    [][\A t \in Tasks :
          (task[t].op = "toggleBookmark" /\ task'[t] # task[t] /\ task[t].pc # "done") =>
             \/ articles' = articles /\ task'[t].exit # "completed"
             \/ /\ task[t].pc = "toggle_update"
                /\ task'[t].exit = "completed"
                /\ \E a \in articles : a.id = task[t].arg.id /\ a.userId = task[t].user
                /\ articles' = BookmarkFlipped(task[t].arg.id)]_vars

\* C26, witness: a toggle has taken the flag of an article back to "0", the
\* value it had before the toggle that came before.
ToggledBack ==
    /\ task[Main].op = "toggleBookmark"
    /\ task[Main].pc = "done"
    /\ task[Main].exit = "completed"
    /\ calls = 3
    /\ \E a \in articles : a.id = task[Main].arg.id /\ a.isBookmarked = "0"

(***************************************************************************)
(* The bookmark on display and the searches in flight                      *)
(***************************************************************************)

\* A call awaited by `handler` is in flight.
InFlight(handler) == \E t \in Tasks : ui.awaits[t] = handler

\* C27: once handleBookmark(articleId) has completed, the isBookmarked flag
\* on display equals the persisted flag, whatever the outcome of the store
\* call was (success, a failure swallowed inside toggleBookmark, article not
\* found).
BookmarkShownAsStored ==
    (ui.pc # "unmounted" /\ ~InFlight("handleBookmark")) =>
        \A a \in ui.articles :
            \E b \in articles : b.id = a.id /\ a.isBookmarked = Truthy(b.isBookmarked)

\* C28: once every search in flight has settled, the results on display are
\* those of the latest searchQuery, and none when the latest query is blank:
\* a search that completes late never overwrites them.  (Stated on what is
\* on display: no article is shown that the latest query does not match.)
LatestQueryShown ==
    (ui.pc # "unmounted" /\ ~InFlight("performSearch")) =>
        \A a \in ui.searchResults :
            Trim(ui.searchQuery) # "" /\ MatchesQuery(a, ui.searchQuery)

(***************************************************************************)
(* The share text                                                          *)
(***************************************************************************)

\* C29: for the platform 'twitter', generateShareText returns a text of at
\* most 280 characters, for every length of the message and of the URL
\* (among them URLs of 277 characters or more, where the budget of the
\* message is zero or less).
TweetWithinLimit ==
    (/\ unit.fn = "generateShareText"
     /\ unit.returned
     /\ ToLowerCase(unit.platform) = "twitter") => Len(unit.value) <= TwitterLimit

(***************************************************************************)
(* The candidates of the parser, line by line                              *)
(***************************************************************************)

\* What a line taken alone sets each field to, "" when it does not set it.
TitleOf(line)       == SetTitle(EmptyArticle, line).title
DescriptionOf(line) == SetDescription(EmptyArticle, line).description
UrlOf(line)         == SetUrl(EmptyArticle, line).url
PublishedAtOf(line) == SetPublishedAt(EmptyArticle, line).publishedAt

\* The greatest and the least of a set of numbers that is not empty.
Greatest(S) == CHOOSE n \in S : \A m \in S : m <= n
Least(S)    == CHOOSE n \in S : \A m \in S : n <= m

\* The value the lines from..to have set a field to last, "" if none has.
LastSet(Field(_), lines, from, to) ==
    LET setters == {j \in from..to : Field(lines[j]) # ""}
    IN  IF setters = {} THEN "" ELSE Field(lines[Greatest(setters)])

\* The lines from `from` on at which a title and a url have both been seen
\* since `from`.
CompletingLines(lines, from) ==
    {i \in from..Len(lines) :
        /\ \E j \in from..i : TitleOf(lines[j]) # ""
        /\ \E j \in from..i : UrlOf(lines[j]) # ""}

\* The candidate made of what the lines from..to have set.
CandidateOfLines(lines, from, to) ==
    ParsedArticle([ title       |-> LastSet(TitleOf, lines, from, to),
                    description |-> LastSet(DescriptionOf, lines, from, to),
                    url         |-> LastSet(UrlOf, lines, from, to),
                    publishedAt |-> LastSet(PublishedAtOf, lines, from, to) ])

\* The candidates by the emission rule: the n-th is emitted on the first
\* line that completes a title and a url since the line after the emission
\* before it, from the lines since then and no others; none after the 20th.
RECURSIVE EmittedFrom(_, _, _)
EmittedFrom(lines, from, n) ==
    IF n >= MaxParsed \/ CompletingLines(lines, from) = {} THEN <<>>
    ELSE LET at == Least(CompletingLines(lines, from))
         IN  <<CandidateOfLines(lines, from, at)>> \o EmittedFrom(lines, at + 1, n + 1)

\* C30: parseRSSContent emits a candidate on the very line that completes a
\* title and a URL and resets the in-progress record: every candidate
\* carries only the field values seen since the emission before it, a
\* description or pubDate line after the completing line is not attached to
\* the candidate emitted but carried into the next one, and after 20
\* emissions no further candidate is emitted.
EmitsOnCompletingLine ==
    Parsed => unit.value = EmittedFrom(Split(unit.content), 1, 0)

\* C30, witness: the description line after the first item is not in the
\* first candidate and is in the second.
DescriptionCarriedToNext ==
    /\ Parsed
    /\ unit.content =
          "<title>Example Article Title</title>\n<link>http://x.com/a\n<description>A description of the example.</description>\n<title>Another Article Title</title>\n<link>http://x.com/b"
    /\ Len(unit.value) = 2
    /\ unit.value[1].description = ""
    /\ unit.value[2].description = "A description of the example."
    /\ unit.value[2].title = "Another Article Title"

=============================================================================
